---- MODULE Spec2Model ----
\* A model of the LINE translation bot (chung38/line-bot-project).
\*
\* The repository holds several variants of one server.  Each component below
\* models one variant's code and has a specification of its own:
\*   SpecDedup      server.js (first variant): reply-token dedup + event handlers
\*   SpecLang       part_007 (second variant): set_lang postbacks, saveLang
\*   SpecMenu       part_007 (second variant): canSend / sendMenu
\*   SpecTranslate  part_007 (second variant): translateSingle + singleCache
\* All variables are initialised by Init; a component's actions leave the
\* other components' variables unchanged.
EXTENDS Integers, Sequences, FiniteSets, TLC

\* ------------------------------------------------------------------ bounds
\* Webhook deliveries in SpecDedup.
MaxDeliveries == 3
\* set_lang postbacks in SpecLang.
MaxPostbacks == 3
\* Top-level sendMenu calls (join or "!設定") in SpecMenu.
MaxMenuCalls == 2
\* Clock horizon of SpecMenu, in units of 5 s.
MaxTime == 14
\* translateSingle calls in SpecTranslate.
MaxTranslateCalls == 3
\* Clock horizon of SpecTranslate, in units of 24 h.
MaxCacheTime == 2
\* translateSingle calls that have not returned yet, at any one time.
MaxInFlight == 2
\* translateSingle calls that meet throttling (429) in SpecTranslate.
MaxThrottledCalls == 1
\* Events in the webhook request of SpecMessage.
MaxBatchLen == 2
\* Starts of the process in SpecStartup (the first one included).
MaxRuns == 2
\* Events (postbacks and messages) delivered in SpecPart010.
MaxEvents10 == 3
\* Retryable pushMessage failures in SpecPart010.
MaxPushErrors == 6
\* Calls of translateWithDeepSeek and clock ticks in SpecMapCache.
MaxMapCalls == 3
MaxMapTime == 2
\* Join events and clock ticks in SpecJoin.
MaxJoins == 2
MaxJoinTicks == 3
\* Calls of withRetry in SpecRetry.
MaxRetryCalls == 2
\* Select postbacks in SpecSelect.
MaxSelects == 3
\* Calls of translateBatch in SpecBatch.
MaxBatchCalls == 2
\* Calls of batchTranslate in SpecDeepSeek.
MaxDsCalls == 2
\* Calls of sendLanguageMenu and clock ticks in SpecMenuCache.
MaxMenu3Calls == 2
MaxMenu3Time == 3

\* ------------------------------------------------------------------ helpers
Range(s) == {s[i] : i \in DOMAIN s}

\* A JavaScript Set keeps insertion order: it is modelled as a sequence
\* without repetitions.
SetHas(s, x) == x \in Range(s)
SetAdd(s, x) == IF SetHas(s, x) THEN s ELSE Append(s, x)
SetDelete(s, x) == SelectSeq(s, LAMBDA y : y # x)

\* A JavaScript Map: a function whose domain is the set of keys present.
MapSet(m, k, v) == [x \in DOMAIN m \cup {k} |-> IF x = k THEN v ELSE m[x]]
MapDelete(m, k) == [x \in DOMAIN m \ {k} |-> m[x]]
EmptyMap == [x \in {} |-> <<>>]

Groups == {"G1", "G2"}

VARIABLES
  \* --- server.js (first variant)
  processedReplyTokens, \* Set of reply tokens already seen
  groupLanguages,       \* Map groupId -> Set of languages
  deliveries,           \* one record per delivered event: its handler
  effects,              \* history: side effects in the order they happened
  \* --- part_007 (second variant): language settings
  groupLang,            \* Map gid -> Set of codes
  langFile,             \* content of groupLanguages.json
  postbacks,            \* one record per set_lang postback handler
  toggleLog,            \* history: per group, the mutations in order
  arrivals,             \* history: per group, the codes in arrival order
  \* --- part_007 (second variant): menu
  now,                  \* Date.now(), in units of 5 s
  rateLimit,            \* gid -> time of the last allowed send (0: none)
  menuTasks,            \* one record per top-level sendMenu call
  menuCalls,            \* history: every sendMenu invocation, retries included
  lastAllowed,          \* history: gid -> time of the last allowed invocation
  \* --- part_007 (second variant): translation
  cacheNow,             \* clock of singleCache, in units of 24 h
  singleCache,          \* LRU cache: entries, least recently used first
  translateTasks,       \* one record per translateSingle call
  \* --- message branch of the webhook handlers
  msgHandler,           \* the variant that serves the webhook ("-": none yet)
  msgTasks,             \* one record per event of the request
  response,             \* what became of the request handler
  \* --- part_007 (second variant): startup
  loader,               \* loadLang of the running process
  fileKind,             \* "missing", "corrupt" or "object" (langFile parses)
  onDisk,               \* history: the postback whose snapshot is the file
  \* --- part_010: postbacks and messages
  groupLanguages10,     \* Map groupId -> Set of language codes
  storageFile,          \* the object last written to STORAGE_FILE
  lineApiStatus,        \* errorCount and blocked
  languageDetectionCache, \* Map groupId -> detected language
  p10Tasks,             \* the events handled so far, one request each
  \* --- server.js: translateWithDeepSeek with its Map cache
  translationCache,     \* Map cacheKey -> translation (at: when it was set)
  mapTasks,             \* the translateWithDeepSeek calls made so far
  mapNow,               \* the clock, in units of the 24 h horizon
  \* --- part_005: join events
  groupLastSent,        \* Map groupId -> time the menu was last sent
  joinTasks,            \* the handleGroupJoin calls made so far
  joinNow,              \* Date.now(), in units of 30 min
  \* --- part_010: withRetry
  retryTasks,           \* the withRetry calls made so far
  \* --- part_003 (second variant): sendLanguageMenu with messageCache
  messageCache,         \* Map groupId -> time of the last successful push
  menu3Tasks,           \* the sendLanguageMenu calls made so far
  menu3Now,             \* Date.now(), in units of 30 s
  \* --- server.js (first variant): select postbacks
  selectLog,            \* history: the select postbacks handled so far
  \* --- part_007 (second variant): translateBatch
  batchCache,           \* Map key -> the object parsed from the answer
  batchTasks,           \* the translateBatch calls made so far
  \* --- part_010: batchTranslate and translateWithDeepSeek
  translationCache10,   \* LRU cache: key -> translation
  dsCalls,              \* the batchTranslate calls made so far
  \* --- part_000: two-phase settings
  groupSettings,        \* object groupId -> committed settings
  tempSettings          \* object groupId -> pending selection

dedupVars == <<processedReplyTokens, groupLanguages, deliveries, effects>>
langVars == <<groupLang, langFile, postbacks, toggleLog, arrivals>>
menuVars == <<now, rateLimit, menuTasks, menuCalls, lastAllowed>>
translateVars == <<cacheNow, singleCache, translateTasks>>
msgVars == <<msgHandler, msgTasks, response>>
startVars == <<loader, fileKind, onDisk>>
p10Vars == <<groupLanguages10, storageFile, lineApiStatus,
             languageDetectionCache, p10Tasks>>
mapVars == <<translationCache, mapTasks, mapNow>>
joinVars == <<groupLastSent, joinTasks, joinNow>>
retryVars == <<retryTasks>>
menu3Vars == <<messageCache, menu3Tasks, menu3Now>>
selVars == <<selectLog>>
batchVars == <<batchCache, batchTasks>>
dsVars == <<translationCache10, dsCalls>>
setVars == <<groupSettings, tempSettings>>
vars == <<dedupVars, langVars, menuVars, translateVars, msgVars, startVars,
          p10Vars, mapVars,
                 joinVars,
                 retryVars,
                 menu3Vars,
                 selVars,
                 batchVars,
                 dsVars,
                 setVars>>

\* ================================================================ SpecDedup
\* server.js lines 171-288: the webhook handler of the first variant.

NoToken == "none"

\* The events the platform may deliver.  A reply token identifies one event,
\* so a redelivery carries the same content.  Events that cannot be replied
\* to (leave, unfollow) carry no token.
InboundEvents ==
  { [replyToken |-> "t1", type |-> "join", gid |-> "G1", lang |-> "-"],
    [replyToken |-> "t2", type |-> "postback", gid |-> "G1", lang |-> "en"],
    [replyToken |-> "t3", type |-> "message", gid |-> "G1", lang |-> "-"],
    [replyToken |-> "t4", type |-> "message", gid |-> "G2", lang |-> "-"],
    [replyToken |-> NoToken, type |-> "leave", gid |-> "G1", lang |-> "-"] }

\* server.js line 178: event.replyToken && processedReplyTokens.has(...)
IsDuplicateNever(tok, seen) == FALSE
IsDuplicate(tok, seen) == tok # NoToken /\ tok \in seen

\* server.js line 182: if (event.replyToken) processedReplyTokens.add(...)
RecordTokenNot(tok, seen) == seen
RecordToken(tok, seen) == IF tok # NoToken THEN seen \cup {tok} ELSE seen

\* server.js lines 204-215: the select branch of the postback handler.
SelectLanguageKeep(set, lang) == SetAdd(set, lang)
SelectLanguage(set, lang) ==
  IF lang = "no-translate"
    THEN <<"no-translate">>
    ELSE SetAdd(SetDelete(set, "no-translate"), lang)

Effect(i, kind) == [ev |-> i, kind |-> kind]

\* The synchronous prefix of the handler of one event: from the dedup check
\* to the first await (lines 178-260).  Returns the handler's position and
\* the side effects made on the way.
FirstStep(e, i, langs) ==
  CASE e.type = "join" -> [pc |-> "welcome", eff |-> <<Effect(i, "push")>>]
    [] e.type = "postback" ->
         [pc |-> "menu", eff |-> <<Effect(i, "mutate"), Effect(i, "push")>>]
    [] e.type = "message" /\ langs = <<>> ->
         [pc |-> "notice", eff |-> <<Effect(i, "reply")>>]
    [] e.type = "message" /\ langs # <<>> ->
         [pc |-> "detect", eff |-> <<>>]
    [] OTHER -> [pc |-> "done", eff |-> <<>>]

\* app.post("/webhook"): one event of a batch reaches its handler, which runs
\* to its first await.
Deliver(e) ==
  /\ Len(deliveries) < MaxDeliveries
  /\ LET i == Len(deliveries) + 1
         dup == IsDuplicate(e.replyToken, processedReplyTokens)
         langs == groupLanguages[e.gid]
         first == FirstStep(e, i, langs)
     IN IF dup
          THEN /\ deliveries' = Append(deliveries,
                    [event |-> e, dup |-> TRUE, pc |-> "skipped"])
               /\ UNCHANGED <<processedReplyTokens, groupLanguages, effects>>
          ELSE /\ processedReplyTokens' =
                    RecordToken(e.replyToken, processedReplyTokens)
               /\ deliveries' = Append(deliveries,
                    [event |-> e, dup |-> FALSE, pc |-> first.pc])
               /\ groupLanguages' =
                    IF e.type = "postback"
                      THEN [groupLanguages EXCEPT
                              ![e.gid] = SelectLanguage(langs, e.lang)]
                      ELSE groupLanguages
               /\ effects' = effects \o first.eff
  /\ UNCHANGED <<langVars, menuVars, translateVars, msgVars, startVars, p10Vars, mapVars,
                 joinVars,
                 retryVars,
                 menu3Vars,
                 selVars,
                 batchVars,
                 dsVars,
                 setVars>>

\* An awaited call of handler i settles and the handler runs to its next
\* await.  ok = FALSE: the awaited call rejected.
\*   welcome: lines 189-193, pushMessage throws through the handler;
\*   menu: sendLanguageSelection (lines 144-150) swallows the error;
\*   notice: lines 242-247; detect/translate: lines 251-270, errors are
\*   turned into null / the placeholder; reply: lines 273-279.
Resume(i, ok, hasReply) ==
  /\ i \in DOMAIN deliveries
  /\ LET d == deliveries[i]
         to(pc) == deliveries' = [deliveries EXCEPT ![i].pc = pc]
     IN CASE d.pc = "welcome" /\ ok ->
               to("menu") /\ effects' = Append(effects, Effect(i, "push"))
          [] d.pc = "welcome" /\ ~ok -> to("failed") /\ UNCHANGED effects
          [] d.pc = "menu" -> to("done") /\ UNCHANGED effects
          [] d.pc = "notice" /\ ok ->
               to("menu") /\ effects' = Append(effects, Effect(i, "push"))
          [] d.pc = "notice" /\ ~ok -> to("failed") /\ UNCHANGED effects
          [] d.pc = "detect" -> to("translate") /\ UNCHANGED effects
          [] d.pc = "translate" /\ hasReply ->
               to("reply") /\ effects' = Append(effects, Effect(i, "reply"))
          [] d.pc = "translate" /\ ~hasReply -> to("done") /\ UNCHANGED effects
          [] d.pc = "reply" /\ ok -> to("done") /\ UNCHANGED effects
          [] d.pc = "reply" /\ ~ok -> to("failed") /\ UNCHANGED effects
          [] OTHER -> FALSE
  /\ UNCHANGED <<processedReplyTokens, groupLanguages>>
  /\ UNCHANGED <<langVars, menuVars, translateVars, msgVars, startVars, p10Vars, mapVars,
                 joinVars,
                 retryVars,
                 menu3Vars,
                 selVars,
                 batchVars,
                 dsVars,
                 setVars>>

NextDedup ==
  \/ \E e \in InboundEvents : Deliver(e)
  \/ \E i \in 1..MaxDeliveries, ok \in BOOLEAN, hasReply \in BOOLEAN :
       Resume(i, ok, hasReply)

\* ---------------------------------------------------------------- claims
TokenOf(i) == deliveries[i].event.replyToken
Ran(i) == deliveries[i].pc # "skipped"

\* C1: duplicate delivery is absorbed.  Among the deliveries of one reply
\* token at most one handler runs its body, every side effect (state mutation,
\* pushMessage, replyMessage) made for the token is made by that one handler,
\* and when a side effect exists the token is already recorded.
C1_DuplicateAbsorbed ==
  /\ \A i, j \in DOMAIN deliveries :
       (TokenOf(i) # NoToken /\ TokenOf(i) = TokenOf(j) /\ Ran(i) /\ Ran(j))
         => i = j
  /\ \A a, b \in DOMAIN effects :
       (TokenOf(effects[a].ev) # NoToken
          /\ TokenOf(effects[a].ev) = TokenOf(effects[b].ev))
         => effects[a].ev = effects[b].ev
  /\ \A a \in DOMAIN effects :
       TokenOf(effects[a].ev) # NoToken
         => TokenOf(effects[a].ev) \in processedReplyTokens

\* C1 witness: an event was delivered three times while its first handler
\* was still suspended; that handler made side effects, the others none.
C1_Witness ==
  \E i, j, k \in DOMAIN deliveries :
    /\ i < j /\ j < k
    /\ TokenOf(i) # NoToken /\ TokenOf(i) = TokenOf(j) /\ TokenOf(j) = TokenOf(k)
    /\ deliveries[i].pc = "done"
    /\ deliveries[j].pc = "skipped" /\ deliveries[k].pc = "skipped"
    /\ Cardinality({a \in DOMAIN effects : effects[a].ev = i}) = 2

\* C2: over any sequence of dedup checks, the check for a token reports
\* "unseen" (and records the token) exactly for the first check of that token
\* and "already seen" for every later one.
C2_SeenExactlyOnce ==
  \A i \in DOMAIN deliveries :
    TokenOf(i) # NoToken =>
      /\ deliveries[i].dup <=> (\E j \in 1..(i - 1) : TokenOf(j) = TokenOf(i))
      /\ TokenOf(i) \in processedReplyTokens

\* C2 witness: three checks of one token, answered unseen, seen, seen.
C2_Witness ==
  /\ Len(deliveries) = 3
  /\ TokenOf(1) = "t2" /\ TokenOf(2) = "t2" /\ TokenOf(3) = "t2"
  /\ ~deliveries[1].dup /\ deliveries[2].dup /\ deliveries[3].dup

\* ================================================================ SpecSelect
\* server.js lines 198-217 (first variant): select postbacks, each with a
\* reply token of its own.  The event comes from group source, its data
\* names groupId; only a postback for the source group is acted on.
SelectCodes == {"en", "th", "no-translate"}

Select(source, groupId, lang) ==
  /\ Len(selectLog) < MaxSelects
  /\ LET before == groupLanguages[source]
         after == IF groupId = source
                    THEN SelectLanguage(before, lang)
                    ELSE before
     IN /\ groupLanguages' = [groupLanguages EXCEPT ![source] = after]
        /\ selectLog' = Append(selectLog,
             [source |-> source, groupId |-> groupId, lang |-> lang,
              before |-> groupLanguages, after |-> groupLanguages'])
  /\ UNCHANGED <<processedReplyTokens, deliveries, effects>>
  /\ UNCHANGED <<langVars, menuVars, translateVars, msgVars, startVars,
                 p10Vars, mapVars, joinVars, retryVars, menu3Vars,
                 batchVars,
                 dsVars,
                 setVars>>

NextSelect ==
  \E src \in Groups, g \in Groups, l \in SelectCodes : Select(src, g, l)

\* C39: the set of a group is {"no-translate"} or does not hold it; a
\* select of "no-translate" leaves nothing else in the set, a select of a
\* language puts it in and takes "no-translate" out.
C39_NoTranslateExclusive ==
  /\ \A g \in Groups :
       \/ Range(groupLanguages[g]) = {"no-translate"}
       \/ "no-translate" \notin Range(groupLanguages[g])
  /\ \A i \in DOMAIN selectLog :
       LET e == selectLog[i]
           set == Range(e.after[e.source])
       IN e.groupId = e.source =>
            IF e.lang = "no-translate"
              THEN set = {"no-translate"}
              ELSE /\ e.lang \in set
                   /\ "no-translate" \notin set
                   /\ Range(e.before[e.source]) \ {"no-translate"} \subseteq set

C39_Witness ==
  /\ Len(selectLog) = 3
  /\ \A i \in 1..3 : selectLog[i].source = "G1" /\ selectLog[i].groupId = "G1"
  /\ selectLog[1].lang = "en"
  /\ selectLog[2].lang = "no-translate"
  /\ selectLog[3].lang = "th"
  /\ groupLanguages["G1"] = <<"th">>

\* ================================================================= SpecLang
\* part_007 lines 201-218 and 322-337 (second variant): the set_lang postback
\* and the snapshot file.

LangCodes == {"en", "th"}
Codes == LangCodes \cup {"cancel"}
\* event.source.userId of a postback (part_001 line 50; part_007 never reads
\* it).
Actors == {"A", "B"}

\* part_007 line 326: groupLang.get(gid) || new Set()
GetOrNewFresh(m, gid) == <<>>
GetOrNew(m, gid) == IF gid \in DOMAIN m THEN m[gid] ELSE <<>>

\* part_007 lines 327-328: cancel clears, any other code is toggled.
ToggleLangAddOnly(set, code) ==
  IF code = "cancel" THEN <<>> ELSE SetAdd(set, code)
ToggleLangNoCancel(set, code) ==
  IF SetHas(set, code) THEN SetDelete(set, code) ELSE SetAdd(set, code)
ToggleLang(set, code) ==
  IF code = "cancel"
    THEN <<>>
    ELSE IF SetHas(set, code) THEN SetDelete(set, code) ELSE SetAdd(set, code)

\* part_007 lines 329-330: an empty set is not kept in the map.
StoreSet(m, gid, set) ==
  IF Len(set) > 0 THEN MapSet(m, gid, set) ELSE MapDelete(m, gid)

\* part_007 lines 214-215: the object saveLang writes, one array per group.
SnapshotOf(m) == [g \in DOMAIN m |-> m[g]]

\* part_007 lines 322-331: a set_lang postback for gid reaches its handler,
\* which toggles the code, builds the snapshot and suspends in
\* await saveLang() with the write in flight.
Postback(userId, gid, code) ==
  /\ Len(postbacks) < MaxPostbacks
  /\ LET before == GetOrNew(groupLang, gid)
         set == ToggleLang(before, code)
         map == StoreSet(groupLang, gid, set)
     IN /\ groupLang' = map
        /\ postbacks' = Append(postbacks,
             [gid |-> gid, code |-> code, pc |-> "saving",
              snap |-> SnapshotOf(map), write |-> "pending",
              run |-> loader.runs, early |-> loader.pc = "reading"])
        /\ toggleLog' = [toggleLog EXCEPT ![gid] = Append(@,
             [code |-> code, before |-> before, after |-> GetOrNew(map, gid),
              userId |-> userId])]
        /\ arrivals' = [arrivals EXCEPT ![gid] = Append(@, code)]
  /\ UNCHANGED langFile
  /\ UNCHANGED <<dedupVars, menuVars, translateVars, msgVars, startVars, p10Vars, mapVars,
                 joinVars,
                 retryVars,
                 menu3Vars,
                 selVars,
                 batchVars,
                 dsVars,
                 setVars>>

\* part_007 lines 216, 331-334: the write of handler i completes; the handler
\* goes on to replyMessage.  ok = FALSE: fs.writeFile rejects, saveLang and
\* the handler reject with it (nothing catches the error).
SaveSettles(i, ok) ==
  /\ i \in DOMAIN postbacks
  /\ postbacks[i].pc = "saving"
  /\ IF ok
       THEN /\ langFile' = postbacks[i].snap
            /\ fileKind' = "object"
            /\ onDisk' = i
            /\ postbacks' = [postbacks EXCEPT ![i].pc = "replying",
                                              ![i].write = "ok"]
       ELSE /\ UNCHANGED <<langFile, fileKind, onDisk>>
            /\ postbacks' = [postbacks EXCEPT ![i].pc = "failed",
                                              ![i].write = "failed"]
  /\ UNCHANGED <<groupLang, toggleLog, arrivals, loader>>
  /\ UNCHANGED <<dedupVars, menuVars, translateVars, msgVars, p10Vars, mapVars,
                 joinVars,
                 retryVars,
                 menu3Vars,
                 selVars,
                 batchVars,
                 dsVars,
                 setVars>>

\* part_007 lines 334-336: replyMessage settles and the handler returns, or
\* rejects with it.
ReplySettles(i, ok) ==
  /\ i \in DOMAIN postbacks
  /\ postbacks[i].pc = "replying"
  /\ postbacks' = [postbacks EXCEPT ![i].pc = IF ok THEN "done" ELSE "failed"]
  /\ UNCHANGED <<groupLang, langFile, toggleLog, arrivals>>
  /\ UNCHANGED <<dedupVars, menuVars, translateVars, msgVars, startVars, p10Vars, mapVars,
                 joinVars,
                 retryVars,
                 menu3Vars,
                 selVars,
                 batchVars,
                 dsVars,
                 setVars>>

NextLang ==
  \/ \E g \in Groups, c \in Codes : Postback("A", g, c)
  \/ \E i \in 1..MaxPostbacks, ok \in BOOLEAN : SaveSettles(i, ok)
  \/ \E i \in 1..MaxPostbacks, ok \in BOOLEAN : ReplySettles(i, ok)

\* ---------------------------------------------------------------- claims
\* What toggling means, on plain sets: the reference the code is compared to.
RefToggle(S, code) ==
  IF code = "cancel" THEN {}
  ELSE IF code \in S THEN S \ {code} ELSE S \cup {code}

RECURSIVE RefFold(_, _)
RefFold(S, codes) ==
  IF codes = <<>> THEN S ELSE RefFold(RefToggle(S, Head(codes)), Tail(codes))

\* The selected set of a conversation as the message handler reads it.
Selected(g) == IF g \in DOMAIN groupLang THEN Range(groupLang[g]) ELSE {}

\* C3 as claimed: for ANY code of a set_lang postback, two postbacks in a row
\* for that code leave the conversation's selected set as it was before the
\* first of the two.
C3_ToggleTwiceAnyCode ==
  \A g \in Groups : \A i \in 1..(Len(toggleLog[g]) - 1) :
    toggleLog[g][i].code = toggleLog[g][i + 1].code
      => Range(toggleLog[g][i + 1].after) = Range(toggleLog[g][i].before)

\* C3 amended: for any code other than "cancel", two postbacks in a row for
\* that code leave the conversation's selected set (as a set of codes) equal
\* to the set before the first of the two.
C3_ToggleTwiceRestores ==
  \A g \in Groups : \A i \in 1..(Len(toggleLog[g]) - 1) :
    (toggleLog[g][i].code = toggleLog[g][i + 1].code
       /\ toggleLog[g][i].code # "cancel")
      => Range(toggleLog[g][i + 1].after) = Range(toggleLog[g][i].before)

\* C3 witness: "th" toggled twice in a row on the set {en}: added (giving
\* {en, th}), then removed again.
C3_Witness ==
  \E g \in Groups : \E i \in 1..(Len(toggleLog[g]) - 1) :
    /\ toggleLog[g][i].code = "th" /\ toggleLog[g][i + 1].code = "th"
    /\ toggleLog[g][i].before = <<"en">>
    /\ toggleLog[g][i].after = <<"en", "th">>
    /\ toggleLog[g][i + 1].after = <<"en">>

\* C4: cancel semantics.  Right after the mutation made by a set_lang
\* postback with code "cancel", the conversation's selected set is empty,
\* whatever it was before.
C4_CancelClears ==
  \A g \in Groups : \A i \in DOMAIN toggleLog[g] :
    toggleLog[g][i].code = "cancel" => toggleLog[g][i].after = <<>>

\* C4 witness: one group was cancelled with a language selected, and
\* cancelled again with nothing selected (the key absent from the map).
C4_Witness ==
  \E g \in Groups : \E i, j \in DOMAIN toggleLog[g] :
    /\ toggleLog[g][i].code = "cancel" /\ Len(toggleLog[g][i].before) = 1
    /\ toggleLog[g][j].code = "cancel" /\ toggleLog[g][j].before = <<>>
    /\ j = i + 1
    /\ g \notin DOMAIN groupLang

\* C5: no lost updates.  In every state, whatever handlers are suspended at
\* their awaits, the in-memory selected set of each conversation is the
\* result of applying that conversation's toggles one after another in
\* arrival order; postbacks of other conversations play no part in it.
C5_NoLostUpdates ==
  \A g \in Groups : Selected(g) = RefFold({}, arrivals[g])

\* C5 witness: two postbacks of G1 and one of G2 were handled concurrently:
\* the first handler is still suspended in saveLang while the second has
\* returned and the third is replying.
C5_Witness ==
  /\ Len(postbacks) = 3
  /\ arrivals["G1"] = <<"en", "th">> /\ arrivals["G2"] = <<"en">>
  /\ postbacks[1].gid = "G1" /\ postbacks[2].gid = "G1"
  /\ postbacks[1].pc = "saving"
  /\ postbacks[2].pc = "done"
  /\ postbacks[3].pc = "replying"
  /\ Selected("G1") = {"en", "th"} /\ Selected("G2") = {"en"}

\* C21 as claimed: when the snapshot write of a set_lang postback fails, the
\* toggle stays applied in memory and the failure does not propagate out of
\* the event's handler.
C21_SaveFailureNotFatal ==
  \A i \in DOMAIN postbacks :
    postbacks[i].write = "failed" =>
      /\ Selected(postbacks[i].gid)
           = RefFold({}, arrivals[postbacks[i].gid])
      /\ postbacks[i].pc # "failed"

\* C22 as claimed: at every moment at most one snapshot write is in flight.
C22_OneWriteInFlight ==
  Cardinality({i \in DOMAIN postbacks : postbacks[i].pc = "saving"}) <= 1

\* C34 as claimed: once every handler has got past its write and every
\* write has succeeded, the file holds the snapshot of the map in memory.
C34_EventualDurability ==
  /\ postbacks # <<>>
  /\ \A i \in DOMAIN postbacks : postbacks[i].write = "ok"
  => langFile = SnapshotOf(groupLang)

\* ================================================================= SpecOwner
\* The set_lang branch with postbacks from different users.
NextOwner ==
  \/ \E u \in Actors, g \in Groups, c \in Codes : Postback(u, g, c)
  \/ \E i \in 1..MaxPostbacks, ok \in BOOLEAN : SaveSettles(i, ok)
  \/ \E i \in 1..MaxPostbacks, ok \in BOOLEAN : ReplySettles(i, ok)

\* The owner of a group: the user whose postback set it up first.
OwnerOf(g) == toggleLog[g][1].userId

\* C30 as claimed: a postback from a user who is not the owner of the group
\* leaves the selected set of the group as it was.
C30_OwnerExclusivity ==
  \A g \in Groups : \A k \in DOMAIN toggleLog[g] :
    toggleLog[g][k].userId # OwnerOf(g) =>
      toggleLog[g][k].after = toggleLog[g][k].before

\* =============================================================== SpecStartup
\* part_007 (second variant), lines 204-218 and 418-421: the process starts,
\* listens, and its listen callback loads the snapshot.

\* What a start finds on disk: the file as the last run left it, no file, a
\* file that is not JSON, or JSON whose entry for G2 is not an array.
Damages == {"asis", "missing", "corrupt", "misshapen"}
NotArray == <<"not-an-array">>
GroupOrder == <<"G1", "G2">>

Damaged(file, damage) ==
  CASE damage = "asis" -> file
    [] damage = "misshapen" ->
         [g \in DOMAIN file \cup {"G2"} |->
            IF g = "G2" THEN NotArray ELSE file[g]]
    [] OTHER -> EmptyMap

DamagedKind(kind, damage) ==
  CASE damage = "asis" -> kind
    [] damage = "misshapen" -> "object"
    [] OTHER -> damage

\* part_007 line 207: new Set(arr) keeps the first occurrence of each element.
RECURSIVE NewSet(_)
NewSetFirstOnly(arr) == IF arr = <<>> THEN <<>> ELSE <<arr[1]>>
NewSet(arr) ==
  IF arr = <<>>
    THEN <<>>
    ELSE LET front == NewSet(SubSeq(arr, 1, Len(arr) - 1))
             last == arr[Len(arr)]
         IN IF SetHas(front, last) THEN front ELSE Append(front, last)

\* part_007 lines 206-208: Object.entries(...).forEach sets one group after
\* the other; new Set of a value that is not iterable throws, the catch of
\* line 210 swallows it and the groups set so far stay.
RECURSIVE LoadEntries(_, _, _)
LoadEntries(m, file, keys) ==
  IF keys = <<>>
    THEN m
    ELSE IF file[Head(keys)] = NotArray
           THEN m
           ELSE LoadEntries(MapSet(m, Head(keys), NewSet(file[Head(keys)])),
                            file, Tail(keys))

KeysOf(file) == SelectSeq(GroupOrder, LAMBDA g : g \in DOMAIN file)

\* part_007 lines 203-211: loadLang; a failed read or parse leaves the map as
\* it is.
LoadLang(m, kind, file) ==
  IF kind = "object" THEN LoadEntries(m, file, KeysOf(file)) ELSE m

\* The process is stopped and started again: a new, empty groupLang (line
\* 202), the handlers of the old process are gone, and the listen callback
\* (lines 418-419) has called loadLang, whose readFile is pending.
Restart(damage) ==
  /\ loader.runs < MaxRuns
  /\ loader.pc = "done"
  /\ groupLang' = EmptyMap
  /\ langFile' = Damaged(langFile, damage)
  /\ fileKind' = DamagedKind(fileKind, damage)
  /\ onDisk' = IF damage = "asis" THEN onDisk ELSE 0
  /\ loader' = [pc |-> "reading", runs |-> loader.runs + 1,
                read |-> "-", clobbered |-> FALSE]
  /\ postbacks' = [i \in DOMAIN postbacks |->
       IF postbacks[i].pc \in {"saving", "replying"}
         THEN [postbacks[i] EXCEPT !.pc = "killed"]
         ELSE postbacks[i]]
  /\ UNCHANGED <<toggleLog, arrivals>>
  /\ UNCHANGED <<dedupVars, menuVars, translateVars, msgVars, p10Vars, mapVars,
                 joinVars,
                 retryVars,
                 menu3Vars,
                 selVars,
                 batchVars,
                 dsVars,
                 setVars>>

\* part_007 lines 205-210: readFile settles and loadLang runs to its end.
LoadSettles ==
  /\ loader.pc = "reading"
  /\ LET map == LoadLang(groupLang, fileKind, langFile)
     IN /\ groupLang' = map
        /\ loader' = [loader EXCEPT
             !.pc = "done",
             !.read = IF \E g \in DOMAIN langFile : langFile[g] = NotArray
                        THEN "misshapen" ELSE fileKind,
             !.clobbered = \E g \in DOMAIN groupLang : map[g] # groupLang[g]]
  /\ UNCHANGED <<langFile, fileKind, onDisk, postbacks, toggleLog, arrivals>>
  /\ UNCHANGED <<dedupVars, menuVars, translateVars, msgVars, p10Vars, mapVars,
                 joinVars,
                 retryVars,
                 menu3Vars,
                 selVars,
                 batchVars,
                 dsVars,
                 setVars>>

NextStartup ==
  \/ \E g \in Groups, c \in Codes : Postback("A", g, c)
  \/ \E i \in 1..MaxPostbacks, ok \in BOOLEAN : SaveSettles(i, ok)
  \/ \E i \in 1..MaxPostbacks, ok \in BOOLEAN : ReplySettles(i, ok)
  \/ \E d \in Damages : Restart(d)
  \/ LoadSettles

\* C24 as claimed: no postback is handled while the load of the running
\* process is pending, and a load never replaces a selection made since the
\* process started.
C24_LoadedBeforeEvents ==
  /\ \A i \in DOMAIN postbacks : ~postbacks[i].early
  /\ ~loader.clobbered

\* The codes posted for group g among the first i postbacks, in order.
CodesUpTo(g, i) ==
  LET own == SelectSeq(SubSeq(postbacks, 1, i), LAMBDA p : p.gid = g)
  IN [k \in DOMAIN own |-> own[k].code]

\* The running process has loaded the snapshot that the handler of postback
\* onDisk wrote in the run before, and has handled no postback itself.
LoadedSnapshot ==
  /\ loader.runs = 2
  /\ loader.pc = "done"
  /\ loader.read = "object"
  /\ onDisk > 0
  /\ \A i \in DOMAIN postbacks : postbacks[i].run = 1

\* C25: the map loaded from a snapshot that saveLang wrote gives every group
\* the set of languages it had in memory when the snapshot was taken, and
\* holds no group whose set was empty then.
C25_RoundTrip ==
  LoadedSnapshot =>
    /\ \A g \in Groups : Selected(g) = RefFold({}, CodesUpTo(g, onDisk))
    /\ \A g \in DOMAIN groupLang : groupLang[g] # <<>>

C25_Witness ==
  /\ LoadedSnapshot
  /\ Cardinality(Selected("G1")) = 2
  /\ Selected("G2") = {}
  /\ \E i \in 1..onDisk : postbacks[i].gid = "G2"

\* C26 as claimed: when the file is missing, is not JSON, or does not have
\* the shape group -> array, the load ends (it never raises) and the map of
\* a process that has handled no postback is empty.
C26_DamagedFileLeavesEmpty ==
  /\ loader.pc = "done"
  /\ loader.read \in {"missing", "corrupt", "misshapen"}
  /\ \A i \in DOMAIN postbacks : postbacks[i].run < loader.runs
  => groupLang = EmptyMap

\* ================================================================= SpecMenu
\* part_007 lines 311-320 and 360-405 (second variant): the menu sender and
\* its rate limiter.  Time is counted in units of 5 s: Date.now() is `now`.

\* part_007 line 361: INTERVAL = 60000 ms, in units of 5 s.
INTERVAL == 12
\* part_007 line 399: retry < 3.
MaxRetry == 3
\* part_007 line 400: setTimeout(r, (retry+1)*5000), in units of 5 s.
Backoff(retry) == retry + 1

\* part_007 lines 363-364: the test of canSend.  An absent entry reads as
\* undefined, and so does a stored 0.
CanSendNoWindow(rl, gid, t) == TRUE
CanSend(rl, gid, t) == rl[gid] = 0 \/ t - rl[gid] > INTERVAL

\* part_007 lines 364-368: canSend stamps the entry when it allows the send.
Stamp(rl, gid, t) == IF CanSend(rl, gid, t) THEN [rl EXCEPT ![gid] = t] ELSE rl

\* part_007 lines 398-404: what the catch block of sendMenu does with a
\* rejected pushMessage.
OnPushErrorRethrow(status, retry) ==
  IF status = "429" /\ retry < MaxRetry THEN "retry" ELSE "raise"
OnPushError(status, retry) ==
  IF status = "429" /\ retry < MaxRetry THEN "retry" ELSE "giveup"

\* One sendMenu invocation, for the history.  inWindow: an earlier invocation
\* for the same conversation was allowed (and so called pushMessage) no more
\* than INTERVAL ago.
MenuCall(gid, task, retry, allowed) ==
  [gid |-> gid, task |-> task, retry |-> retry, allowed |-> allowed,
   pushes |-> IF allowed THEN 1 ELSE 0,
   inWindow |-> lastAllowed[gid] # 0 /\ now - lastAllowed[gid] <= INTERVAL]

\* part_007 lines 312-319, 371-397: a join event or the "!設定" command calls
\* sendMenu(gid): canSend, then the pushMessage call, then the await.  Both
\* triggers run the same statement, await sendMenu(gid), so the task does not
\* remember which one started it.
SendMenu(gid, trigger) ==
  /\ Len(menuTasks) < MaxMenuCalls
  /\ LET allowed == CanSend(rateLimit, gid, now)
         i == Len(menuTasks) + 1
     IN /\ rateLimit' = Stamp(rateLimit, gid, now)
        /\ menuTasks' = Append(menuTasks,
             [gid |-> gid, retry |-> 0,
              pc |-> IF allowed THEN "pushing" ELSE "done",
              wake |-> 0, pushes |-> IF allowed THEN 1 ELSE 0,
              throttled |-> 0, failed |-> 0, delivered |-> FALSE])
        /\ menuCalls' = Append(menuCalls, MenuCall(gid, i, 0, allowed))
        /\ lastAllowed' =
             IF allowed THEN [lastAllowed EXCEPT ![gid] = now] ELSE lastAllowed
  /\ UNCHANGED now
  /\ UNCHANGED <<dedupVars, langVars, translateVars, msgVars, startVars, p10Vars, mapVars,
                 joinVars,
                 retryVars,
                 menu3Vars,
                 selVars,
                 batchVars,
                 dsVars,
                 setVars>>

\* part_007 lines 397-404: the pushMessage of task i settles.
PushSettles(i, outcome) ==
  /\ i \in DOMAIN menuTasks
  /\ menuTasks[i].pc = "pushing"
  /\ LET k == menuTasks[i]
         next == OnPushError(outcome, k.retry)
     IN menuTasks' = [menuTasks EXCEPT ![i] =
          CASE outcome = "ok" -> [k EXCEPT !.pc = "done", !.delivered = TRUE]
            [] outcome = "429" /\ next = "retry" ->
                 [k EXCEPT !.pc = "backoff", !.wake = now + Backoff(k.retry),
                           !.throttled = @ + 1]
            [] OTHER ->
                 [k EXCEPT !.pc = IF next = "raise" THEN "raised" ELSE "done",
                           !.throttled = IF outcome = "429" THEN @ + 1 ELSE @,
                           !.failed = IF outcome = "429" THEN @ ELSE @ + 1]]
  /\ UNCHANGED <<now, rateLimit, menuCalls, lastAllowed>>
  /\ UNCHANGED <<dedupVars, langVars, translateVars, msgVars, startVars, p10Vars, mapVars,
                 joinVars,
                 retryVars,
                 menu3Vars,
                 selVars,
                 batchVars,
                 dsVars,
                 setVars>>

\* part_007 lines 400-401, 372: the backoff timer of task i fires and
\* sendMenu(gid, retry+1) runs: canSend again, then the next pushMessage.
BackoffFires(i) ==
  /\ i \in DOMAIN menuTasks
  /\ menuTasks[i].pc = "backoff"
  /\ now >= menuTasks[i].wake
  /\ LET k == menuTasks[i]
         allowed == CanSend(rateLimit, k.gid, now)
     IN /\ rateLimit' = Stamp(rateLimit, k.gid, now)
        /\ menuTasks' = [menuTasks EXCEPT ![i] =
             [k EXCEPT !.retry = @ + 1,
                       !.pc = IF allowed THEN "pushing" ELSE "done",
                       !.pushes = IF allowed THEN @ + 1 ELSE @]]
        /\ menuCalls' = Append(menuCalls,
             MenuCall(k.gid, i, k.retry + 1, allowed))
        /\ lastAllowed' =
             IF allowed THEN [lastAllowed EXCEPT ![k.gid] = now]
             ELSE lastAllowed
  /\ UNCHANGED now
  /\ UNCHANGED <<dedupVars, langVars, translateVars, msgVars, startVars, p10Vars, mapVars,
                 joinVars,
                 retryVars,
                 menu3Vars,
                 selVars,
                 batchVars,
                 dsVars,
                 setVars>>

\* Time passes.  Only differences of clock readings matter, so the clock
\* starts with the first call; it stops at the horizon unless a timer is
\* pending, and once every call has been made and has returned.
Tick ==
  /\ menuTasks # <<>>
  /\ \/ Len(menuTasks) < MaxMenuCalls
     \/ \E i \in DOMAIN menuTasks : menuTasks[i].pc \in {"pushing", "backoff"}
  /\ \/ now < MaxTime
     \/ \E i \in DOMAIN menuTasks :
          menuTasks[i].pc = "backoff" /\ menuTasks[i].wake > now
  /\ now' = now + 1
  /\ UNCHANGED <<rateLimit, menuTasks, menuCalls, lastAllowed>>
  /\ UNCHANGED <<dedupVars, langVars, translateVars, msgVars, startVars, p10Vars, mapVars,
                 joinVars,
                 retryVars,
                 menu3Vars,
                 selVars,
                 batchVars,
                 dsVars,
                 setVars>>

NextMenu ==
  \/ \E g \in Groups, trigger \in {"join", "command"} : SendMenu(g, trigger)
  \/ \E i \in 1..MaxMenuCalls, outcome \in {"ok", "429", "error"} :
       PushSettles(i, outcome)
  \/ \E i \in 1..MaxMenuCalls : BackoffFires(i)
  \/ Tick

\* ---------------------------------------------------------------- claims
\* C6: rate limiting.  Of two sendMenu invocations for one conversation made
\* within INTERVAL (60 s) of each other, the first of which found the limiter
\* open, exactly one calls pushMessage: the first calls it once, the second
\* (whether started by a join, by the command or by a retry) not at all.
C6_OnePushPerWindow ==
  /\ \A b \in DOMAIN menuCalls :
       menuCalls[b].inWindow => (~menuCalls[b].allowed /\ menuCalls[b].pushes = 0)
  /\ \A i \in DOMAIN menuTasks :
       menuTasks[i].pushes =
         Cardinality({b \in DOMAIN menuCalls :
                        menuCalls[b].task = i /\ menuCalls[b].allowed})

\* C6 witness: two top-level calls for G1 inside one window, both returned;
\* the first pushed the menu, the second was skipped.
C6_Witness ==
  \E a, b \in DOMAIN menuCalls :
    /\ a < b
    /\ menuCalls[a].gid = "G1" /\ menuCalls[b].gid = "G1"
    /\ menuCalls[a].retry = 0 /\ menuCalls[b].retry = 0
    /\ menuCalls[a].task # menuCalls[b].task
    /\ menuCalls[a].allowed /\ menuCalls[b].inWindow /\ ~menuCalls[b].allowed
    /\ now > 1
    /\ \A i \in DOMAIN menuTasks : menuTasks[i].pc = "done"
    /\ menuTasks[menuCalls[a].task].delivered
    /\ menuTasks[menuCalls[a].task].pushes + menuTasks[menuCalls[b].task].pushes = 1

C9_MenuSendTerminates ==
  /\ [](\A i \in DOMAIN menuTasks :
          /\ menuTasks[i].pc # "raised"
          /\ menuTasks[i].retry <= MaxRetry
          /\ menuTasks[i].pushes <= menuTasks[i].retry + 1)
  /\ \A i \in 1..MaxMenuCalls :
       [](i \in DOMAIN menuTasks
            => <>(i \in DOMAIN menuTasks /\ menuTasks[i].pc = "done"))

\* C9 witness: a send that was throttled, then rejected with another error,
\* has returned after two push attempts.
C9_Witness ==
  \E i \in DOMAIN menuTasks :
    /\ menuTasks[i].pc = "done"
    /\ menuTasks[i].pushes = 2
    /\ menuTasks[i].throttled = 1 /\ menuTasks[i].failed = 1
    /\ ~menuTasks[i].delivered

\* ============================================================ SpecTranslate
\* part_007 lines 267-298 (second variant): translateSingle and singleCache.
\* The cache clock counts units of 24 h; the backoff delays (5 s to 15 s) are
\* far below one unit, so a retry may run at any time after its 429.

\* part_007 line 268: ttl = 24 h, in units of 24 h.
TTL == 1
\* part_007 line 268: max = 500 entries, scaled down.
SingleCacheMax == 1
\* part_007 line 291: retry < 3.
MaxTranslateRetry == 3
\* part_007 line 296: the string returned when the translation fails.
Placeholder == "(translation failed)"

\* part_007 line 351: the non-Chinese texts of inbound messages, each
\* translated into "zh-TW".
Texts == {"hello", "bye"}
TargetLangs == {"zh-TW"}
\* What the backend may answer for one request.
BackendAnswers == {"v1", "v2"}
BackendOutcomes == BackendAnswers \cup {"429", "error"}

\* part_007 line 270: key = `${lang}:${text}`
CacheKey(text, lang) == <<lang, text>>

\* lru-cache: an entry is stale once its age exceeds the ttl.
IsStale(e, t) == t - e.at > TTL

\* part_007 line 271: singleCache.has(key); a stale entry does not count.
CacheHas(cache, key, t) ==
  \E i \in DOMAIN cache : cache[i].key = key /\ ~IsStale(cache[i], t)

\* part_007 line 271: singleCache.get(key): the value, and the entry becomes
\* the most recently used one.
CacheHolds(cache, key) == \E i \in DOMAIN cache : cache[i].key = key
CacheValue(cache, key) ==
  LET i == CHOOSE i \in DOMAIN cache : cache[i].key = key IN cache[i].value
CacheTouch(cache, key) ==
  LET i == CHOOSE i \in DOMAIN cache : cache[i].key = key
  IN Append(SelectSeq(cache, LAMBDA e : e.key # key), cache[i])

\* part_007 line 288: singleCache.set(key, out).  A new key in a full cache
\* evicts the least recently used entry.
CacheSetDropped(cache, key, value, t) == cache
CacheSet(cache, key, value, t) ==
  LET entry == [key |-> key, value |-> value, at |-> t]
      others == SelectSeq(cache, LAMBDA e : e.key # key)
  IN IF Len(others) < Len(cache) THEN Append(others, entry)
     ELSE IF Len(cache) >= SingleCacheMax THEN Append(Tail(cache), entry)
     ELSE Append(cache, entry)

\* part_007 lines 291-296: the catch block of translateSingle.
OnBackendErrorRetryAll(status, retry) ==
  IF retry < MaxTranslateRetry THEN "retry" ELSE "placeholder"
OnBackendError(status, retry) ==
  IF status = "429" /\ retry < MaxTranslateRetry THEN "retry" ELSE "placeholder"

\* What the cache holds for a key when a call returns: the stored value, or
\* "-" when the key has no entry.
Stored(cache, key) ==
  IF CacheHolds(cache, key) THEN CacheValue(cache, key) ELSE "-"

\* The tasks that have returned.
Returned == {i \in DOMAIN translateTasks : translateTasks[i].pc = "done"}

\* part_007 lines 269-286: a caller invokes translateSingle(text, lang): a
\* cache hit returns at once, a miss posts the request to the backend.
Translate(text, lang) ==
  /\ Len(translateTasks) < MaxTranslateCalls
  /\ Cardinality(DOMAIN translateTasks \ Returned) < MaxInFlight
  /\ LET key == CacheKey(text, lang)
         hit == CacheHas(singleCache, key, cacheNow)
         base == [key |-> key, retry |-> 0, start |-> cacheNow,
                  after |-> Returned, end |-> 0,
                  throttled |-> 0, fatal |-> 0,
                  held |-> CacheHolds(singleCache, key), stored |-> "-"]
     IN IF hit
          THEN /\ translateTasks' = Append(translateTasks,
                    [pc |-> "done", calls |-> 0, end |-> cacheNow,
                     result |-> CacheValue(singleCache, key),
                     stored |-> CacheValue(singleCache, key)] @@ base)
               /\ singleCache' = CacheTouch(singleCache, key)
          ELSE /\ translateTasks' = Append(translateTasks,
                    [pc |-> "calling", calls |-> 1, result |-> "-"] @@ base)
               /\ UNCHANGED singleCache
  /\ UNCHANGED cacheNow
  /\ UNCHANGED <<dedupVars, langVars, menuVars, msgVars, startVars, p10Vars, mapVars,
                 joinVars,
                 retryVars,
                 menu3Vars,
                 selVars,
                 batchVars,
                 dsVars,
                 setVars>>

\* part_007 lines 287-289, 296: what the call hands back for a settled
\* request that is not retried.
ResultOf(outcome) ==
  IF outcome \in BackendAnswers THEN outcome ELSE Placeholder

\* part_007 line 288: singleCache.set sits in the try block after the await,
\* so only a resolved request populates the cache.
PopulatesAlways(outcome) == TRUE
Populates(outcome) == outcome \in BackendAnswers

\* part_007 lines 287-296: the backend request of task i settles.
BackendSettles(i, outcome) ==
  /\ i \in DOMAIN translateTasks
  /\ translateTasks[i].pc = "calling"
  /\ outcome = "429" =>
       Cardinality({j \in DOMAIN translateTasks :
                      j # i /\ translateTasks[j].throttled > 0})
         < MaxThrottledCalls
  /\ LET k == translateTasks[i]
         again == outcome \notin BackendAnswers
                    /\ OnBackendError(outcome, k.retry) = "retry"
         n == [k EXCEPT
                 !.throttled = IF outcome = "429" THEN @ + 1 ELSE @,
                 !.fatal = IF outcome \in {"429"} \cup BackendAnswers
                             THEN @ ELSE @ + 1]
     IN /\ singleCache' =
             IF ~again /\ Populates(outcome)
               THEN CacheSet(singleCache, k.key, ResultOf(outcome), cacheNow)
               ELSE singleCache
        /\ translateTasks' = [translateTasks EXCEPT ![i] =
             IF again
               THEN [n EXCEPT !.pc = "backoff"]
               ELSE [n EXCEPT !.pc = "done", !.result = ResultOf(outcome),
                              !.end = cacheNow,
                              !.stored = Stored(singleCache', k.key)]]
  /\ UNCHANGED cacheNow
  /\ UNCHANGED <<dedupVars, langVars, menuVars, msgVars, startVars, p10Vars, mapVars,
                 joinVars,
                 retryVars,
                 menu3Vars,
                 selVars,
                 batchVars,
                 dsVars,
                 setVars>>

\* part_007 lines 292-293, 270-286: the backoff of task i is over and
\* translateSingle(text, lang, retry + 1) runs: the cache is looked up
\* again before the backend is asked again.
RetryTranslate(i) ==
  /\ i \in DOMAIN translateTasks
  /\ translateTasks[i].pc = "backoff"
  /\ LET k == translateTasks[i]
         hit == CacheHas(singleCache, k.key, cacheNow)
     IN IF hit
          THEN /\ translateTasks' = [translateTasks EXCEPT ![i] =
                    [k EXCEPT !.pc = "done", !.retry = @ + 1,
                              !.end = cacheNow,
                              !.result = CacheValue(singleCache, k.key),
                              !.stored = CacheValue(singleCache, k.key)]]
               /\ singleCache' = CacheTouch(singleCache, k.key)
          ELSE /\ translateTasks' = [translateTasks EXCEPT ![i] =
                    [k EXCEPT !.pc = "calling", !.retry = @ + 1,
                              !.calls = @ + 1]]
               /\ UNCHANGED singleCache
  /\ UNCHANGED cacheNow
  /\ UNCHANGED <<dedupVars, langVars, menuVars, msgVars, startVars, p10Vars, mapVars,
                 joinVars,
                 retryVars,
                 menu3Vars,
                 selVars,
                 batchVars,
                 dsVars,
                 setVars>>

\* Time passes, as long as a call is still to come or to return.
CacheTick ==
  /\ cacheNow < MaxCacheTime
  /\ translateTasks # <<>>
  /\ \/ Len(translateTasks) < MaxTranslateCalls
     \/ \E i \in DOMAIN translateTasks : translateTasks[i].pc # "done"
  /\ cacheNow' = cacheNow + 1
  /\ UNCHANGED <<singleCache, translateTasks>>
  /\ UNCHANGED <<dedupVars, langVars, menuVars, msgVars, startVars, p10Vars, mapVars,
                 joinVars,
                 retryVars,
                 menu3Vars,
                 selVars,
                 batchVars,
                 dsVars,
                 setVars>>

NextTranslate ==
  \/ \E text \in Texts, lang \in TargetLangs : Translate(text, lang)
  \/ \E i \in 1..MaxTranslateCalls, outcome \in BackendOutcomes :
       BackendSettles(i, outcome)
  \/ \E i \in 1..MaxTranslateCalls : RetryTranslate(i)
  \/ CacheTick

\* ---------------------------------------------------------------- claims
\* Two translateSingle calls are inside the cache horizon of each other when
\* the later one starts no more than the ttl after the earlier one.
InsideHorizon(i, j) ==
  /\ i < j
  /\ translateTasks[i].key = translateTasks[j].key
  /\ translateTasks[j].start - translateTasks[i].start <= TTL

\* C10: idempotence of translate: two translateSingle calls with the same
\* (text, language) made inside the cache horizon, one after the other or
\* concurrently, and whatever the backend answers, cause at most one
\* invocation of the translation backend between them.
C10_AtMostOneBackendCall ==
  \A i, j \in DOMAIN translateTasks :
    InsideHorizon(i, j) =>
      translateTasks[i].calls + translateTasks[j].calls <= 1

\* Persistent throttling: so far every backend request has been answered 429.
AlwaysThrottled ==
  /\ singleCache = <<>>
  /\ \A i \in DOMAIN translateTasks : translateTasks[i].fatal = 0

\* C11 as claimed: under persistent throttling a translateSingle call makes at
\* most 3 backend requests in total, and once it has returned it has returned
\* the placeholder (it never raises).
C11_AtMostThreeCallsWhenThrottled ==
  AlwaysThrottled =>
    \A i \in DOMAIN translateTasks :
      /\ translateTasks[i].calls <= 3
      /\ translateTasks[i].pc = "done" => translateTasks[i].result = Placeholder

\* The backend throttled the first two requests of call i and answered the
\* third one.
SucceededOnThird(i) ==
  /\ translateTasks[i].pc = "done"
  /\ translateTasks[i].throttled = 2
  /\ translateTasks[i].fatal = 0
  /\ translateTasks[i].calls = translateTasks[i].retry + 1

\* Call j for the same key started after call i had returned, and no more than
\* the ttl after it.
LaterInsideHorizon(i, j) ==
  /\ i \in translateTasks[j].after
  /\ translateTasks[j].key = translateTasks[i].key
  /\ translateTasks[j].start - translateTasks[i].end <= TTL

\* C12 as claimed: when the backend throttles the first two requests of a call
\* and answers the third, the call has made exactly 3 backend requests, returns
\* that answer, the cache then holds that answer for the key, and every later
\* call for the key inside the horizon makes no backend request.
C12_EveryLaterCallHits ==
  \A i \in DOMAIN translateTasks :
    SucceededOnThird(i) =>
      /\ translateTasks[i].calls = 3
      /\ translateTasks[i].result \in BackendAnswers
      /\ translateTasks[i].stored = translateTasks[i].result
      /\ \A j \in DOMAIN translateTasks :
           LaterInsideHorizon(i, j) => translateTasks[j].calls = 0

\* C12, amended: the same, for every later call inside the horizon that
\* starts while the size-capped cache still holds an entry for the key.
C12_LaterCallHitsWhileHeld ==
  \A i \in DOMAIN translateTasks :
    SucceededOnThird(i) =>
      /\ translateTasks[i].calls = 3
      /\ translateTasks[i].result \in BackendAnswers
      /\ translateTasks[i].stored = translateTasks[i].result
      /\ \A j \in DOMAIN translateTasks :
           (LaterInsideHorizon(i, j) /\ translateTasks[j].held)
             => /\ translateTasks[j].calls = 0
                /\ translateTasks[j].result \in BackendAnswers

\* C12 witness: a call answered on its third request, and a later call for
\* the same key, started exactly one ttl after the first returned, that was
\* served from the cache with the same result.
C12_Witness ==
  \E i, j \in DOMAIN translateTasks :
    /\ SucceededOnThird(i)
    /\ LaterInsideHorizon(i, j)
    /\ translateTasks[j].start - translateTasks[i].end = TTL
    /\ translateTasks[j].calls = 0
    /\ translateTasks[j].result = translateTasks[i].result

\* C13: a backend error other than 429 ends the call at once: the failed
\* request is the last one the call makes (the only one when nothing was
\* throttled before it) and the call returns the placeholder.
C13_FatalNotRetried ==
  \A i \in DOMAIN translateTasks :
    translateTasks[i].fatal > 0 =>
      /\ translateTasks[i].pc = "done"
      /\ translateTasks[i].result = Placeholder
      /\ translateTasks[i].fatal = 1
      /\ translateTasks[i].calls = translateTasks[i].throttled + 1
      /\ translateTasks[i].throttled = 0 => translateTasks[i].calls = 1

\* C13 witness: a call whose first request failed with a non-429 error has
\* returned the placeholder after that single request, and a later call for
\* the same key asks the backend again.
C13_Witness ==
  \E i, j \in DOMAIN translateTasks :
    /\ translateTasks[i].fatal = 1 /\ translateTasks[i].throttled = 0
    /\ translateTasks[i].pc = "done" /\ translateTasks[i].calls = 1
    /\ translateTasks[i].result = Placeholder
    /\ i \in translateTasks[j].after
    /\ translateTasks[j].key = translateTasks[i].key
    /\ translateTasks[j].calls = 1

\* Call i returned the answer of a backend request of its own.
AnsweredByBackend(i) ==
  /\ translateTasks[i].pc = "done"
  /\ translateTasks[i].result \in BackendAnswers
  /\ translateTasks[i].calls = translateTasks[i].retry + 1

\* C14: the cache holds an entry for a key only if a backend request for that
\* key succeeded, the stored value is the answer of such a request (the one
\* that wrote the entry), and the placeholder is never stored.
C14_OnlySuccessesCached ==
  \A n \in DOMAIN singleCache :
    /\ singleCache[n].value # Placeholder
    /\ \E i \in DOMAIN translateTasks :
         /\ AnsweredByBackend(i)
         /\ translateTasks[i].key = singleCache[n].key
         /\ translateTasks[i].result = singleCache[n].value
         /\ translateTasks[i].end = singleCache[n].at

\* C14 witness: a call for a key failed and left the cache without an entry
\* for it; a later call for the key was answered "v2", and that is the value
\* the cache holds.
C14_Witness ==
  \E i, j \in DOMAIN translateTasks, n \in DOMAIN singleCache :
    /\ translateTasks[i].key = translateTasks[j].key
    /\ translateTasks[i].result = Placeholder
    /\ translateTasks[i].stored = "-"
    /\ i \in translateTasks[j].after
    /\ AnsweredByBackend(j) /\ translateTasks[j].result = "v2"
    /\ singleCache[n].key = translateTasks[j].key
    /\ singleCache[n].value = "v2"

\* ============================================================== SpecMessage
\* The message branch of the webhook handlers, one request at a time:
\*   "p011"   part_011 lines 87-133   (for loop over the events, one try/catch)
\*   "p007a"  part_007 lines 73-121   (Promise.all, first variant)
\*   "p007b"  part_007 lines 306-357  (Promise.all, LRU variant, translateBatch)
\*   "p001"   part_001 lines 41-120   (Promise.all over handleEvent)
\* A translation is identified by its target language; what the backend does
\* inside one translate call is the subject of SpecTranslate.

Handlers == {"p011", "p007a", "p007b", "p001"}
\* Handlers that run the events of a request one after the other.
Sequential == {"p011"}

\* Message texts: one with a Chinese character, one without.
MsgTexts == {"zh-text", "en-text"}
\* part_007 line 221 isChinese, part_011 containsChinese, part_001 line 97.
IsChinese(txt) == txt = "zh-text"

\* The text-message events a request may carry.
MsgEvents == [gid : Groups, text : MsgTexts]
Batches == UNION {[1..n -> MsgEvents] : n \in 1..MaxBatchLen}

\* Conversations that set_lang postbacks configure before the request.
ConfiguredGroups == {"G1"}

\* The language codes in the order of Array.prototype.sort() (UTF-16 order).
SortedCodes == <<"en", "th">>
\* part_007 line 228: codes.sort() sorts the caller's array in place.
SortNot(codes) == codes
Sort(codes) == SelectSeq(SortedCodes, LAMBDA c : c \in Range(codes))

\* part_011 line 123, part_007 lines 114 and 351: the target of a message
\* without Chinese; part_001 line 112 names it "zh".
ReverseTarget(h) == IF h = "p001" THEN "zh" ELSE "zh-TW"

\* The languages a message is translated into: every selected language for a
\* Chinese text (part_011 line 120, part_007 lines 108 and 345, part_001 line
\* 98), the reverse target otherwise.
TargetsFanOut(h, txt, set) == set
Targets(h, txt, set) == IF IsChinese(txt) THEN set ELSE <<ReverseTarget(h)>>

\* part_011 lines 116-117 reply the notice to a conversation without a
\* selection; part_007 lines 105 and 341 and part_001 line 94 return.
NoticeAlways(h) == TRUE
Notice(h) == h = "p011"

\* part_011 lines 119-121 gather the translations and reply once; part_007
\* lines 108-111 and part_001 lines 98-105 reply inside the loop.
Gathers(h) == h = "p011"
\* part_001 line 104: break after the first language.
Breaks(h) == h = "p001"

\* The handler of one event, from its start to its first await.
NewTask(ev) ==
  [gid |-> ev.gid, text |-> ev.text, pc |-> "wait", codes |-> <<>>,
   out |-> <<>>, calls |-> <<>>, replies |-> <<>>]

Start(h, ev) ==
  LET set == GetOrNew(groupLang, ev.gid)
      t == NewTask(ev)
  IN IF set = <<>>
       THEN IF Notice(h)
              THEN [t EXCEPT !.pc = "replying", !.replies = <<<<"notice">>>>]
              ELSE [t EXCEPT !.pc = "done"]
     ELSE IF h = "p007b" /\ IsChinese(ev.text)
       THEN [t EXCEPT !.pc = "batching", !.codes = Sort(set),
                      !.calls = <<"batch">>]
     ELSE IF h = "p001" /\ ~IsChinese(ev.text)
       THEN [t EXCEPT !.pc = "detecting", !.codes = set,
                      !.calls = <<"detect">>]
     ELSE LET codes == Targets(h, ev.text, set)
          IN [t EXCEPT !.pc = "translating", !.codes = codes,
                       !.calls = <<codes[1]>>]

\* What becomes of the request once task i has settled as `task`.
\* part_011 lines 88-132: the loop goes on to the next event, a rejection
\* leaves the loop for the catch block.  part_007 lines 74-119: Promise.all
\* rejects with the first rejection and the handler never reaches
\* res.sendStatus; the other handlers keep running.
Settle(i, task) ==
  LET h == msgHandler
      tasks == [msgTasks EXCEPT ![i] = task]
  IN IF task.pc \notin {"done", "raised"}
       THEN /\ msgTasks' = tasks
            /\ UNCHANGED response
     ELSE IF h \in Sequential
       THEN IF task.pc = "raised"
              THEN /\ msgTasks' = [j \in DOMAIN tasks |->
                        IF tasks[j].pc = "wait"
                          THEN [tasks[j] EXCEPT !.pc = "skipped"]
                          ELSE tasks[j]]
                   /\ response' = "500"
            ELSE IF i < Len(tasks)
              THEN /\ msgTasks' = [tasks EXCEPT ![i + 1] =
                        Start(h, [gid |-> tasks[i + 1].gid,
                                  text |-> tasks[i + 1].text])]
                   /\ UNCHANGED response
            ELSE /\ msgTasks' = tasks
                 /\ response' = "200"
     ELSE /\ msgTasks' = tasks
          /\ response' =
               IF response # "-" THEN response
               ELSE IF task.pc = "raised" THEN "escaped"
               ELSE IF \A j \in DOMAIN tasks : tasks[j].pc = "done" THEN "200"
               ELSE "-"

\* A webhook request with the events `events` arrives at variant h.
Webhook(h, events) ==
  /\ msgHandler = "-"
  /\ msgHandler' = h
  /\ LET started == [j \in DOMAIN events |->
                       IF h \in Sequential /\ j > 1
                         THEN NewTask(events[j]) ELSE Start(h, events[j])]
     IN /\ msgTasks' = started
        /\ response' =
             IF \A j \in DOMAIN started : started[j].pc = "done"
               THEN "200" ELSE "-"
  /\ UNCHANGED <<dedupVars, langVars, menuVars, translateVars, startVars, p10Vars, mapVars,
                 joinVars,
                 retryVars,
                 menu3Vars,
                 selVars,
                 batchVars,
                 dsVars,
                 setVars>>

\* A translate call of task i returns (translateWithDeepSeek, translateSingle
\* and translateText all resolve, with a translation or with a placeholder).
TranslateReturns(i) ==
  /\ i \in DOMAIN msgTasks
  /\ msgTasks[i].pc = "translating"
  /\ LET k == msgTasks[i]
         h == msgHandler
         t == k.calls[Len(k.calls)]
         out == Append(k.out, t)
     IN Settle(i,
          IF Gathers(h) /\ Len(out) < Len(k.codes)
            THEN [k EXCEPT !.out = out,
                           !.calls = Append(@, k.codes[Len(out) + 1])]
            ELSE [k EXCEPT !.out = out, !.pc = "replying",
                           !.replies = Append(@,
                              IF Gathers(h) THEN out ELSE <<t>>)])
  /\ UNCHANGED msgHandler
  /\ UNCHANGED <<dedupVars, langVars, menuVars, translateVars, startVars, p10Vars, mapVars,
                 joinVars,
                 retryVars,
                 menu3Vars,
                 selVars,
                 batchVars,
                 dsVars,
                 setVars>>

\* part_007 lines 345-347, 227-264: translateBatch returns, with the JSON of
\* the backend or, when the batch request failed, with the results of one
\* translateSingle per code; msgs = codes.map(...) is sent in one reply.
BatchReturns(i, outcome) ==
  /\ i \in DOMAIN msgTasks
  /\ msgTasks[i].pc = "batching"
  /\ LET k == msgTasks[i]
     IN Settle(i,
          [k EXCEPT !.out = k.codes, !.pc = "replying",
                    !.calls = IF outcome = "ok" THEN @ ELSE @ \o k.codes,
                    !.replies = Append(@, k.codes)])
  /\ UNCHANGED msgHandler
  /\ UNCHANGED <<dedupVars, langVars, menuVars, translateVars, startVars, p10Vars, mapVars,
                 joinVars,
                 retryVars,
                 menu3Vars,
                 selVars,
                 batchVars,
                 dsVars,
                 setVars>>

\* part_001 lines 110-112: detectLanguage returns `lang`.
DetectReturns(i, lang) ==
  /\ i \in DOMAIN msgTasks
  /\ msgTasks[i].pc = "detecting"
  /\ LET k == msgTasks[i]
         h == msgHandler
     IN Settle(i,
          IF lang \in Range(k.codes) \/ lang = "en"
            THEN [k EXCEPT !.pc = "translating", !.codes = <<ReverseTarget(h)>>,
                           !.calls = Append(@, ReverseTarget(h))]
            ELSE [k EXCEPT !.pc = "done"])
  /\ UNCHANGED msgHandler
  /\ UNCHANGED <<dedupVars, langVars, menuVars, translateVars, startVars, p10Vars, mapVars,
                 joinVars,
                 retryVars,
                 menu3Vars,
                 selVars,
                 batchVars,
                 dsVars,
                 setVars>>

\* The replyMessage call of task i settles.  A resolved reply inside a loop
\* (part_007 lines 108-111) goes on to the next language; a rejected reply
\* throws out of the event's handler.
MessageReplySettles(i, ok) ==
  /\ i \in DOMAIN msgTasks
  /\ msgTasks[i].pc = "replying"
  /\ LET k == msgTasks[i]
         h == msgHandler
     IN Settle(i,
          IF ~ok THEN [k EXCEPT !.pc = "raised"]
          ELSE IF ~Gathers(h) /\ ~Breaks(h) /\ Len(k.out) < Len(k.codes)
                  /\ k.calls[1] # "batch"
            THEN [k EXCEPT !.pc = "translating",
                           !.calls = Append(@, k.codes[Len(k.out) + 1])]
          ELSE [k EXCEPT !.pc = "done"])
  /\ UNCHANGED msgHandler
  /\ UNCHANGED <<dedupVars, langVars, menuVars, translateVars, startVars, p10Vars, mapVars,
                 joinVars,
                 retryVars,
                 menu3Vars,
                 selVars,
                 batchVars,
                 dsVars,
                 setVars>>

NextMessage ==
  \/ \E g \in ConfiguredGroups, code \in Codes :
       msgHandler = "-" /\ Postback("A", g, code)
  \/ \E h \in Handlers, events \in Batches : Webhook(h, events)
  \/ \E i \in 1..MaxBatchLen : TranslateReturns(i)
  \/ \E i \in 1..MaxBatchLen, outcome \in {"ok", "failed"} :
       BatchReturns(i, outcome)
  \/ \E i \in 1..MaxBatchLen, lang \in LangCodes \cup {"ja"} :
       DetectReturns(i, lang)
  \/ \E i \in 1..MaxBatchLen, ok \in BOOLEAN : MessageReplySettles(i, ok)

\* ---------------------------------------------------------------- claims
\* The selection of the conversation of task i (no postback is handled once
\* the request has arrived).
Selection(i) == GetOrNew(groupLang, msgTasks[i].gid)
\* Task i has been started by its handler.
Handled(i) == msgTasks[i].pc \notin {"wait", "skipped"}

\* C15 as claimed: for every text message the handler calls replyMessage with
\* the message's reply token at most once, and for a Chinese text that reply
\* carries the translations into all the selected languages.
C15_SingleGatheredReply ==
  msgHandler \in {"p011", "p007a", "p007b"} =>
    \A i \in DOMAIN msgTasks :
      /\ Len(msgTasks[i].replies) <= 1
      /\ \A r \in DOMAIN msgTasks[i].replies :
           (IsChinese(msgTasks[i].text) /\ Selection(i) # <<>>)
             => Range(msgTasks[i].replies[r]) = Range(Selection(i))

\* C16 as claimed: the translations of a Chinese message appear in the reply
\* in the order in which the languages were selected.
C16_ReplyInSelectionOrder ==
  msgHandler \in {"p011", "p007b"} =>
    \A i \in DOMAIN msgTasks :
      (IsChinese(msgTasks[i].text) /\ Selection(i) # <<>>) =>
        \A r \in DOMAIN msgTasks[i].replies :
          msgTasks[i].replies[r] =
            SelectSeq(Selection(i),
                      LAMBDA c : c \in Range(msgTasks[i].replies[r]))

\* C17 as claimed: a Chinese message to a conversation with N >= 1 selected
\* languages causes exactly N translate calls, one per selected language, and
\* then exactly one reply with all N results.
C17_OneCallPerLanguage ==
  msgHandler \in {"p011", "p001"} =>
    \A i \in DOMAIN msgTasks :
      (IsChinese(msgTasks[i].text) /\ Selection(i) # <<>>) =>
        /\ Len(msgTasks[i].calls) <= Len(Selection(i))
        /\ msgTasks[i].pc = "done" =>
             /\ Len(msgTasks[i].calls) = Len(Selection(i))
             /\ Range(msgTasks[i].calls) = Range(Selection(i))
             /\ Len(msgTasks[i].replies) = 1
             /\ Range(msgTasks[i].replies[1]) = Range(Selection(i))

\* C18: a message without Chinese to a conversation with a selection causes
\* exactly one translate call, into zh-TW, and then exactly one reply, however
\* many languages are selected.
C18_OneReverseTranslation ==
  msgHandler \in {"p011", "p007a", "p007b"} =>
    \A i \in DOMAIN msgTasks :
      (~IsChinese(msgTasks[i].text) /\ Selection(i) # <<>> /\ Handled(i)) =>
        /\ msgTasks[i].calls = <<"zh-TW">>
        /\ msgTasks[i].replies =
             IF msgTasks[i].pc = "translating" THEN <<>>
             ELSE << <<"zh-TW">> >>

\* C18 witness: the sequential handler has answered an English message to a
\* conversation with two selected languages: one call, one reply.
C18_Witness ==
  /\ msgHandler = "p011"
  /\ response = "200"
  /\ \E i \in DOMAIN msgTasks :
       /\ ~IsChinese(msgTasks[i].text)
       /\ Len(Selection(i)) = 2
       /\ msgTasks[i].pc = "done"
       /\ msgTasks[i].calls = <<"zh-TW">>
       /\ Len(msgTasks[i].replies) = 1

\* C19 as claimed: a text message to a conversation without a selection gets
\* exactly one reply, the notice, and causes no translate call.
C19_NoticeWhenUnconfigured ==
  msgHandler \in {"p011", "p007b"} =>
    \A i \in DOMAIN msgTasks :
      (Selection(i) = <<>> /\ Handled(i)) =>
        /\ msgTasks[i].calls = <<>>
        /\ msgTasks[i].replies = << <<"notice">> >>

\* C20 as claimed: an error raised while one event of a request is handled
\* stays at that event: no other event of the request is left unhandled and
\* the error does not escape the request handler.
C20_EventIsolation ==
  /\ response # "escaped"
  /\ \A i \in DOMAIN msgTasks : msgTasks[i].pc # "skipped"

\* C29 as claimed: while the translate call for a message of one group is
\* pending, the handler of a later event of the batch for another group is
\* not held back.
C29_NotDelayedByOtherGroup ==
  msgHandler \in {"p011", "p007a", "p007b"} =>
    \A i, j \in DOMAIN msgTasks :
      /\ i < j
      /\ msgTasks[i].gid # msgTasks[j].gid
      /\ msgTasks[i].pc \in {"translating", "batching"}
      => msgTasks[j].pc # "wait"

\* ================================================================= SpecJoin
\* part_005 lines 38-136: join events, the once-an-hour guard and
\* sendLanguageMenu.  Time is counted in units of 30 min.

\* Date.now() when the process starts: more than an hour after time 0.
JoinEpoch == 3
\* part_005 line 71: 3600000 ms.
HOUR == 2
\* part_005 line 76: retryCount > 2 gives up.
MaxRetryCount == 2

\* part_005 lines 68-72: shouldSendLanguageMenu.
ShouldSendLanguageMenu(lastSentMap, gid, t) ==
  LET lastSent == IF gid \in DOMAIN lastSentMap THEN lastSentMap[gid] ELSE 0
  IN t - lastSent > HOUR

\* part_005 lines 56-61: handleGroupJoin up to its first await.
HandleGroupJoin(gid) ==
  /\ Len(joinTasks) < MaxJoins
  /\ joinTasks' = Append(joinTasks,
       [gid |-> gid, start |-> joinNow, retryCount |-> 0, pushes |-> 0,
        pc |-> IF ShouldSendLanguageMenu(groupLastSent, gid, joinNow)
                 THEN "delaying" ELSE "done"])
  /\ UNCHANGED <<groupLastSent, joinNow>>
  /\ UNCHANGED <<dedupVars, langVars, menuVars, translateVars, msgVars,
                 startVars, p10Vars, mapVars,
                 retryVars,
                 menu3Vars,
                 selVars,
                 batchVars,
                 dsVars,
                 setVars>>

\* part_005 lines 62-63, 75-122: the 10 s delay (or the 429 back-off of lines
\* 128-130) ends and sendLanguageMenu calls pushMessage, unless retryCount
\* has passed 2: then it returns and handleGroupJoin records the time.
JoinDelayEnds(i) ==
  /\ i \in DOMAIN joinTasks
  /\ joinTasks[i].pc = "delaying"
  /\ IF joinTasks[i].retryCount > MaxRetryCount
       THEN /\ joinTasks' = [joinTasks EXCEPT ![i].pc = "done"]
            /\ groupLastSent' = MapSet(groupLastSent, joinTasks[i].gid, joinNow)
       ELSE /\ joinTasks' = [joinTasks EXCEPT ![i].pc = "pushing",
                                              ![i].pushes = @ + 1]
            /\ UNCHANGED groupLastSent
  /\ UNCHANGED joinNow
  /\ UNCHANGED <<dedupVars, langVars, menuVars, translateVars, msgVars,
                 startVars, p10Vars, mapVars,
                 retryVars,
                 menu3Vars,
                 selVars,
                 batchVars,
                 dsVars,
                 setVars>>

\* part_005 lines 122-134, 64: pushMessage settles.  A 429 waits and calls
\* sendLanguageMenu again; success and any other error return, and
\* handleGroupJoin records the time.
JoinPushSettles(i, outcome) ==
  /\ i \in DOMAIN joinTasks
  /\ joinTasks[i].pc = "pushing"
  /\ IF outcome = "429"
       THEN /\ joinTasks' = [joinTasks EXCEPT ![i].pc = "delaying",
                                              ![i].retryCount = @ + 1]
            /\ UNCHANGED groupLastSent
       ELSE /\ joinTasks' = [joinTasks EXCEPT ![i].pc = "done"]
            /\ groupLastSent' = MapSet(groupLastSent, joinTasks[i].gid, joinNow)
  /\ UNCHANGED joinNow
  /\ UNCHANGED <<dedupVars, langVars, menuVars, translateVars, msgVars,
                 startVars, p10Vars, mapVars,
                 retryVars,
                 menu3Vars,
                 selVars,
                 batchVars,
                 dsVars,
                 setVars>>

\* 30 min pass.
JoinTick ==
  /\ joinNow < JoinEpoch + MaxJoinTicks
  /\ joinNow' = joinNow + 1
  /\ UNCHANGED <<groupLastSent, joinTasks>>
  /\ UNCHANGED <<dedupVars, langVars, menuVars, translateVars, msgVars,
                 startVars, p10Vars, mapVars,
                 retryVars,
                 menu3Vars,
                 selVars,
                 batchVars,
                 dsVars,
                 setVars>>

NextJoin ==
  \/ \E g \in Groups : HandleGroupJoin(g)
  \/ \E i \in 1..MaxJoins : JoinDelayEnds(i)
  \/ \E i \in 1..MaxJoins, o \in {"ok", "429", "error"} : JoinPushSettles(i, o)
  \/ JoinTick

\* C31 as claimed: of two join events for one group that arrive within the
\* hour of each other, at most one leads to a pushMessage call.
C31_OnePushForConcurrentJoins ==
  \A i, j \in DOMAIN joinTasks :
    /\ i < j
    /\ joinTasks[i].gid = joinTasks[j].gid
    /\ joinTasks[j].start - joinTasks[i].start <= HOUR
    => joinTasks[i].pushes = 0 \/ joinTasks[j].pushes = 0

\* ============================================================= SpecMapCache
\* server.js lines 34 and 320-358: translateWithDeepSeek with a plain Map as
\* its cache.

\* server.js lines 322-326: a stored key is answered from the Map; else the
\* backend is called.
TranslateWithDeepSeek(text, lang) ==
  /\ Len(mapTasks) < MaxMapCalls
  /\ LET cacheKey == CacheKey(text, lang)
         hit == cacheKey \in DOMAIN translationCache
     IN mapTasks' = Append(mapTasks,
          [key |-> cacheKey, start |-> mapNow,
           pc |-> IF hit THEN "done" ELSE "calling",
           hit |-> hit,
           age |-> IF hit THEN mapNow - translationCache[cacheKey].at ELSE 0,
           result |-> IF hit THEN translationCache[cacheKey].value ELSE "-"])
  /\ UNCHANGED <<translationCache, mapNow>>
  /\ UNCHANGED <<dedupVars, langVars, menuVars, translateVars, msgVars,
                 startVars, p10Vars,
                 joinVars,
                 retryVars,
                 menu3Vars,
                 selVars,
                 batchVars,
                 dsVars,
                 setVars>>

\* server.js lines 329-357: axios.post settles; an answer is stored and
\* returned, an error returns the failure text.
MapBackendSettles(i, outcome) ==
  /\ i \in DOMAIN mapTasks
  /\ mapTasks[i].pc = "calling"
  /\ IF outcome \in BackendAnswers
       THEN /\ translationCache' = MapSet(translationCache, mapTasks[i].key,
                                          [value |-> outcome, at |-> mapNow])
            /\ mapTasks' = [mapTasks EXCEPT ![i].pc = "done",
                                            ![i].result = outcome]
       ELSE /\ UNCHANGED translationCache
            /\ mapTasks' = [mapTasks EXCEPT ![i].pc = "done",
                                            ![i].result = Placeholder]
  /\ UNCHANGED mapNow
  /\ UNCHANGED <<dedupVars, langVars, menuVars, translateVars, msgVars,
                 startVars, p10Vars,
                 joinVars,
                 retryVars,
                 menu3Vars,
                 selVars,
                 batchVars,
                 dsVars,
                 setVars>>

\* One horizon (24 h) passes.
MapTick ==
  /\ mapNow < MaxMapTime
  /\ mapNow' = mapNow + 1
  /\ UNCHANGED <<translationCache, mapTasks>>
  /\ UNCHANGED <<dedupVars, langVars, menuVars, translateVars, msgVars,
                 startVars, p10Vars,
                 joinVars,
                 retryVars,
                 menu3Vars,
                 selVars,
                 batchVars,
                 dsVars,
                 setVars>>

NextMapCache ==
  \/ \E t \in Texts, l \in TargetLangs : TranslateWithDeepSeek(t, l)
  \/ \E i \in 1..MaxMapCalls, o \in BackendAnswers \cup {"error"} :
       MapBackendSettles(i, o)
  \/ MapTick

\* C27 as claimed: no call is answered from an entry stored more than the
\* horizon before the call.
C27_NeverServedAfterExpiry ==
  \A i \in DOMAIN mapTasks : mapTasks[i].hit => mapTasks[i].age <= TTL

\* ============================================================== SpecPart010
\* part_010: handlePostback, sendLanguageMenu with withRetry and the LINE
\* API status, safeSave, and the direction choice of handleMessage.  Every
\* event comes in a request of its own, so the handlers interleave.

MaxRetries10 == 5
BlockAfter == 5
SelectLangs == {"en", "no-translate"}
PushOutcomes == {"ok", "retryable", "fatal"}

\* part_010 lines 363-380: the language the backend names for a text, as it
\* writes it, and String.prototype.toLowerCase of line 380.
Detector(text) == IF IsChinese(text) THEN "zh-TW" ELSE "en"
ToLowerCase(str) == IF str = "zh-TW" THEN "zh-tw" ELSE str

\* part_010 lines 360-385: detectLanguage; a failed call answers "zh-TW".
DetectLanguage(text, ok) == IF ok THEN ToLowerCase(Detector(text)) ELSE "zh-TW"

\* part_010 lines 341-343: the test that chooses the direction.
Direction(detectedLang, text) ==
  IF detectedLang = "zh-TW" THEN "fan-out" ELSE "to-zh-TW"

\* part_010 lines 301-311: the set after the select action; clear() returns
\* undefined, so selecting "no-translate" throws once the set is emptied.
SelectInto(langs, lang) ==
  IF lang = "no-translate"
    THEN <<>>
    ELSE SetAdd(SetDelete(langs, "no-translate"), lang)

\* part_010 lines 50-66: updateApiStatus.
UpdateApiStatusTrips(st) ==
  [errorCount |-> st.errorCount + 1, blocked |-> TRUE]
UpdateApiStatus(st) ==
  [errorCount |-> st.errorCount + 1,
   blocked |-> st.blocked \/ st.errorCount + 1 >= BlockAfter]

NewTask10(kind, gid, arg) ==
  [kind |-> kind, gid |-> gid, source |-> gid, arg |-> arg, pc |-> "-",
   attempt |-> 0,
   changed |-> FALSE, snap |-> EmptyMap, save |-> "-", dir |-> "-"]

PushErrors ==
  LET RECURSIVE Sum(_)
      Sum(i) == IF i = 0 THEN 0 ELSE p10Tasks[i].attempt + Sum(i - 1)
  IN Sum(Len(p10Tasks))

\* part_010 lines 294-312 and 201-206: handlePostback up to its first await.
HandlePostback(source, gid, lang) ==
  /\ Len(p10Tasks) < MaxEvents10
  /\ LET before == GetOrNew(groupLanguages10, gid)
         after == SelectInto(before, lang)
         threw == lang = "no-translate" \/ lineApiStatus.blocked
     IN /\ groupLanguages10' = MapSet(groupLanguages10, gid, after)
        /\ p10Tasks' = Append(p10Tasks,
             [NewTask10("postback", gid, lang) EXCEPT
                !.source = source,
                !.pc = IF threw THEN "threw" ELSE "pushing",
                !.changed = Range(after) # Range(before)])
  /\ UNCHANGED <<storageFile, lineApiStatus, languageDetectionCache>>
  /\ UNCHANGED <<dedupVars, langVars, menuVars, translateVars, msgVars,
                 startVars, mapVars,
                 joinVars,
                 retryVars,
                 menu3Vars,
                 selVars,
                 batchVars,
                 dsVars,
                 setVars>>

\* part_010 lines 96-112 and 213-217, 311-312: pushMessage settles inside
\* withRetry.  Success goes on to safeSave, which builds its object before
\* its first await; an error that is not retryable, or the fifth error, is
\* thrown through sendLanguageMenu and handlePostback.
PushSettles10(i, outcome) ==
  /\ i \in DOMAIN p10Tasks
  /\ p10Tasks[i].pc = "pushing"
  /\ outcome = "retryable" => PushErrors < MaxPushErrors
  /\ p10Tasks' = [p10Tasks EXCEPT ![i] =
       CASE outcome = "ok" ->
              [@ EXCEPT !.pc = "saving", !.snap = SnapshotOf(groupLanguages10)]
         [] outcome = "fatal" ->
              [@ EXCEPT !.pc = "threw", !.attempt = @ + 1]
         [] OTHER ->
              [@ EXCEPT !.pc = "backoff", !.attempt = @ + 1]]
  /\ UNCHANGED <<groupLanguages10, storageFile, lineApiStatus,
                 languageDetectionCache>>
  /\ UNCHANGED <<dedupVars, langVars, menuVars, translateVars, msgVars,
                 startVars, mapVars,
                 joinVars,
                 retryVars,
                 menu3Vars,
                 selVars,
                 batchVars,
                 dsVars,
                 setVars>>

\* part_010 lines 107-113: the delay is over, updateApiStatus counts the
\* error, and the loop calls pushMessage again or gives up.
BackoffEnds(i) ==
  /\ i \in DOMAIN p10Tasks
  /\ p10Tasks[i].pc = "backoff"
  /\ lineApiStatus' = UpdateApiStatus(lineApiStatus)
  /\ p10Tasks' = [p10Tasks EXCEPT ![i].pc =
       IF p10Tasks[i].attempt < MaxRetries10 THEN "pushing" ELSE "threw"]
  /\ UNCHANGED <<groupLanguages10, storageFile, languageDetectionCache>>
  /\ UNCHANGED <<dedupVars, langVars, menuVars, translateVars, msgVars,
                 startVars, mapVars,
                 joinVars,
                 retryVars,
                 menu3Vars,
                 selVars,
                 batchVars,
                 dsVars,
                 setVars>>

\* part_010 lines 60-64: the reset timer fires.
BlockExpires ==
  /\ lineApiStatus.blocked
  /\ lineApiStatus' = [errorCount |-> 0, blocked |-> FALSE]
  /\ UNCHANGED <<groupLanguages10, storageFile, languageDetectionCache,
                 p10Tasks>>
  /\ UNCHANGED <<dedupVars, langVars, menuVars, translateVars, msgVars,
                 startVars, mapVars,
                 joinVars,
                 retryVars,
                 menu3Vars,
                 selVars,
                 batchVars,
                 dsVars,
                 setVars>>

\* part_010 lines 126-129: writeFile settles; safeSave catches a failure.
SafeSaveSettles(i, ok) ==
  /\ i \in DOMAIN p10Tasks
  /\ p10Tasks[i].pc = "saving"
  /\ storageFile' = IF ok THEN p10Tasks[i].snap ELSE storageFile
  /\ p10Tasks' = [p10Tasks EXCEPT ![i].pc = "done",
                                  ![i].save = IF ok THEN "ok" ELSE "failed"]
  /\ UNCHANGED <<groupLanguages10, lineApiStatus, languageDetectionCache>>
  /\ UNCHANGED <<dedupVars, langVars, menuVars, translateVars, msgVars,
                 startVars, mapVars,
                 joinVars,
                 retryVars,
                 menu3Vars,
                 selVars,
                 batchVars,
                 dsVars,
                 setVars>>

\* part_010 lines 321-338: handleMessage up to its first await.
HandleMessage(gid, text) ==
  /\ Len(p10Tasks) < MaxEvents10
  /\ LET selectedLangs == GetOrNew(groupLanguages10, gid)
         task == NewTask10("message", gid, text)
     IN p10Tasks' = Append(p10Tasks,
          IF SetHas(selectedLangs, "no-translate") \/ Len(selectedLangs) = 0
            THEN [task EXCEPT !.pc = "replying"]
            ELSE IF gid \in DOMAIN languageDetectionCache
                   THEN [task EXCEPT
                           !.pc = "translating",
                           !.dir = Direction(languageDetectionCache[gid],
                                             text)]
                   ELSE [task EXCEPT !.pc = "detecting"])
  /\ UNCHANGED <<groupLanguages10, storageFile, lineApiStatus,
                 languageDetectionCache>>
  /\ UNCHANGED <<dedupVars, langVars, menuVars, translateVars, msgVars,
                 startVars, mapVars,
                 joinVars,
                 retryVars,
                 menu3Vars,
                 selVars,
                 batchVars,
                 dsVars,
                 setVars>>

\* part_010 lines 336-343: detectLanguage returns, its answer is cached for
\* the group and chooses the direction.
DetectSettles(i, ok) ==
  /\ i \in DOMAIN p10Tasks
  /\ p10Tasks[i].pc = "detecting"
  /\ LET detectedLang == DetectLanguage(p10Tasks[i].arg, ok)
     IN /\ languageDetectionCache' =
             MapSet(languageDetectionCache, p10Tasks[i].gid, detectedLang)
        /\ p10Tasks' = [p10Tasks EXCEPT
             ![i].pc = "translating",
             ![i].dir = Direction(detectedLang, p10Tasks[i].arg)]
  /\ UNCHANGED <<groupLanguages10, storageFile, lineApiStatus>>
  /\ UNCHANGED <<dedupVars, langVars, menuVars, translateVars, msgVars,
                 startVars, mapVars,
                 joinVars,
                 retryVars,
                 menu3Vars,
                 selVars,
                 batchVars,
                 dsVars,
                 setVars>>

\* part_010 lines 40-43: an entry of languageDetectionCache outlives its ttl.
DetectionExpires(gid) ==
  /\ gid \in DOMAIN languageDetectionCache
  /\ languageDetectionCache' = MapDelete(languageDetectionCache, gid)
  /\ UNCHANGED <<groupLanguages10, storageFile, lineApiStatus, p10Tasks>>
  /\ UNCHANGED <<dedupVars, langVars, menuVars, translateVars, msgVars,
                 startVars, mapVars,
                 joinVars,
                 retryVars,
                 menu3Vars,
                 selVars,
                 batchVars,
                 dsVars,
                 setVars>>

\* part_010 lines 340-355: batchTranslate returns (translateWithDeepSeek
\* never throws), or the notice is ready; replyMessage settles.
TranslateSettles10(i) ==
  /\ i \in DOMAIN p10Tasks
  /\ p10Tasks[i].pc = "translating"
  /\ p10Tasks' = [p10Tasks EXCEPT ![i].pc = "replying"]
  /\ UNCHANGED <<groupLanguages10, storageFile, lineApiStatus,
                 languageDetectionCache>>
  /\ UNCHANGED <<dedupVars, langVars, menuVars, translateVars, msgVars,
                 startVars, mapVars,
                 joinVars,
                 retryVars,
                 menu3Vars,
                 selVars,
                 batchVars,
                 dsVars,
                 setVars>>

ReplySettles10(i, ok) ==
  /\ i \in DOMAIN p10Tasks
  /\ p10Tasks[i].pc = "replying"
  /\ p10Tasks' = [p10Tasks EXCEPT ![i].pc = IF ok THEN "done" ELSE "threw"]
  /\ UNCHANGED <<groupLanguages10, storageFile, lineApiStatus,
                 languageDetectionCache>>
  /\ UNCHANGED <<dedupVars, langVars, menuVars, translateVars, msgVars,
                 startVars, mapVars,
                 joinVars,
                 retryVars,
                 menu3Vars,
                 selVars,
                 batchVars,
                 dsVars,
                 setVars>>

NextPart010 ==
  \/ \E g \in Groups, l \in SelectLangs : HandlePostback(g, g, l)
  \/ \E i \in 1..MaxEvents10, o \in PushOutcomes : PushSettles10(i, o)
  \/ \E i \in 1..MaxEvents10 : BackoffEnds(i)
  \/ BlockExpires
  \/ \E i \in 1..MaxEvents10, ok \in BOOLEAN : SafeSaveSettles(i, ok)
  \/ \E g \in Groups, t \in MsgTexts : HandleMessage(g, t)
  \/ \E i \in 1..MaxEvents10, ok \in BOOLEAN : DetectSettles(i, ok)
  \/ \E g \in Groups : DetectionExpires(g)
  \/ \E i \in 1..MaxEvents10 : TranslateSettles10(i)
  \/ \E i \in 1..MaxEvents10, ok \in BOOLEAN : ReplySettles10(i, ok)

\* C23 as claimed: a select postback that changed the set and whose handler
\* has ended has had its snapshot write made, whatever became of the menu.
C23_ChangeIsSaved ==
  \A i \in DOMAIN p10Tasks :
    /\ p10Tasks[i].kind = "postback"
    /\ p10Tasks[i].changed
    /\ p10Tasks[i].pc \in {"done", "threw"}
    => p10Tasks[i].save \in {"ok", "failed"}

\* part_010 lines 294-312 with postbacks whose data names any group: the
\* event comes from group src, its data carries groupId g.
NextForeign ==
  \/ \E src \in Groups, g \in Groups, l \in SelectLangs :
       HandlePostback(src, g, l)
  \/ \E i \in 1..MaxEvents10, o \in PushOutcomes : PushSettles10(i, o)
  \/ \E i \in 1..MaxEvents10 : BackoffEnds(i)
  \/ BlockExpires
  \/ \E i \in 1..MaxEvents10, ok \in BOOLEAN : SafeSaveSettles(i, ok)

\* C35 as claimed: a select postback whose groupId parameter is not the
\* group the event came from changes no set.
C35_ForeignPostbackChangesNothing ==
  \A i \in DOMAIN p10Tasks :
    /\ p10Tasks[i].kind = "postback"
    /\ p10Tasks[i].source # p10Tasks[i].gid
    => ~p10Tasks[i].changed

\* A pushMessage call is made in this step: a handler enters "pushing".
NewPush ==
  \E i \in DOMAIN p10Tasks' :
    /\ p10Tasks'[i].pc = "pushing"
    /\ i \in DOMAIN p10Tasks => p10Tasks[i].pc # "pushing"

\* errorCount goes up by steps of one and goes down only when the reset
\* timer fires, which clears both fields.
CounterSteps ==
  /\ lineApiStatus'.errorCount < lineApiStatus.errorCount =>
       /\ lineApiStatus.blocked
       /\ lineApiStatus' = [errorCount |-> 0, blocked |-> FALSE]
  /\ lineApiStatus.blocked /\ ~lineApiStatus'.blocked =>
       lineApiStatus'.errorCount = 0
  /\ \A i \in DOMAIN p10Tasks :
       p10Tasks[i].pc = "pushing" /\ p10Tasks'[i].pc = "saving" =>
         lineApiStatus' = lineApiStatus

\* C38 as claimed: blocked implies errorCount >= 5, no pushMessage call is
\* made while blocked, and errorCount only falls at the reset.
C38_NoPushWhileBlocked ==
  /\ [](lineApiStatus.blocked => lineApiStatus.errorCount >= BlockAfter)
  /\ [][lineApiStatus.blocked => ~NewPush]_vars
  /\ [][CounterSteps]_vars

\* C38, amended: blocked implies errorCount >= 5; a sendLanguageMenu call
\* that starts while blocked raises without a pushMessage call; the reset
\* clears blocked and errorCount, and errorCount never falls otherwise, a
\* successful push leaving it as it is.
C38_CircuitBreaker ==
  /\ [](lineApiStatus.blocked => lineApiStatus.errorCount >= BlockAfter)
  /\ [][lineApiStatus.blocked =>
          \A i \in DOMAIN p10Tasks' \ DOMAIN p10Tasks :
            p10Tasks'[i].kind = "postback" => p10Tasks'[i].pc = "threw"]_vars
  /\ [][CounterSteps]_vars

C38_Witness ==
  /\ lineApiStatus.blocked
  /\ \E i, j \in DOMAIN p10Tasks :
       /\ i < j
       /\ p10Tasks[i].pc = "pushing" /\ p10Tasks[i].attempt > 0
       /\ p10Tasks[j].kind = "postback" /\ p10Tasks[j].arg = "en"
       /\ p10Tasks[j].pc = "threw" /\ p10Tasks[j].attempt = 0

\* C28 as claimed: two messages with the same text are translated in the
\* same direction.
C28_DirectionByTextOnly ==
  \A i, j \in DOMAIN p10Tasks :
    /\ p10Tasks[i].kind = "message"
    /\ p10Tasks[j].kind = "message"
    /\ p10Tasks[i].dir # "-"
    /\ p10Tasks[j].dir # "-"
    /\ p10Tasks[i].arg = p10Tasks[j].arg
    => p10Tasks[i].dir = p10Tasks[j].dir

\* ================================================================ SpecRetry
\* part_010 lines 70-114: withRetry(fn, context), for any fn.

Contexts == {"LINE_API", "DEEPSEEK_API"}
\* part_010 lines 73 and 79: maxRetries.
MaxRetriesOf(context) == IF context = "LINE_API" THEN MaxRetries10 ELSE 3
\* part_010 lines 75 and 81: statuses.
StatusesOf(context) ==
  IF context = "LINE_API"
    THEN {"429", "500", "502", "503", "504"}
    ELSE {"429", "500"}

\* What one invocation of fn can do: succeed, fail with a response status,
\* or fail without a response (error.response?.status is undefined).
FnOutcomes == {"ok", "no-response", "400", "429", "500", "502"}

\* part_010 line 98: shouldRetry.
ShouldRetryAlways(context, outcome) == TRUE
ShouldRetry(context, outcome) == outcome \in StatusesOf(context)

\* part_010 lines 88-95: withRetry up to its first await; attempt 0 is below
\* maxRetries, so fn is called.
WithRetry(context) ==
  /\ Len(retryTasks) < MaxRetryCalls
  /\ retryTasks' = Append(retryTasks,
       [context |-> context, attempt |-> 0, calls |-> 1, waits |-> 0,
        pc |-> "calling", last |-> "-"])
  /\ UNCHANGED <<dedupVars, langVars, menuVars, translateVars, msgVars,
                 startVars, p10Vars, mapVars, joinVars,
                 menu3Vars,
                 selVars,
                 batchVars,
                 dsVars,
                 setVars>>

\* part_010 lines 94-103: fn settles.
FnSettles(i, outcome) ==
  /\ i \in DOMAIN retryTasks
  /\ retryTasks[i].pc = "calling"
  /\ retryTasks' = [retryTasks EXCEPT ![i] =
       CASE outcome = "ok" -> [@ EXCEPT !.pc = "returned", !.last = outcome]
         [] ShouldRetry(retryTasks[i].context, outcome) ->
              [@ EXCEPT !.pc = "waiting", !.attempt = @ + 1,
                        !.last = outcome]
         [] OTHER ->
              [@ EXCEPT !.pc = "rethrew", !.attempt = @ + 1,
                        !.last = outcome]]
  /\ UNCHANGED <<dedupVars, langVars, menuVars, translateVars, msgVars,
                 startVars, p10Vars, mapVars, joinVars,
                 menu3Vars,
                 selVars,
                 batchVars,
                 dsVars,
                 setVars>>

\* part_010 lines 107-113: the delay ends, LINE_API counts the error, and the
\* loop test calls fn again or falls through to the throw of line 113.
RetryDelayEnds(i) ==
  /\ i \in DOMAIN retryTasks
  /\ retryTasks[i].pc = "waiting"
  /\ lineApiStatus' = IF retryTasks[i].context = "LINE_API"
                        THEN UpdateApiStatus(lineApiStatus)
                        ELSE lineApiStatus
  /\ retryTasks' = [retryTasks EXCEPT ![i] =
       IF retryTasks[i].attempt < MaxRetriesOf(retryTasks[i].context)
         THEN [@ EXCEPT !.pc = "calling", !.calls = @ + 1, !.waits = @ + 1]
         ELSE [@ EXCEPT !.pc = "threw", !.waits = @ + 1]]
  /\ UNCHANGED <<groupLanguages10, storageFile, languageDetectionCache,
                 p10Tasks>>
  /\ UNCHANGED <<dedupVars, langVars, menuVars, translateVars, msgVars,
                 startVars, mapVars, joinVars,
                 menu3Vars,
                 selVars,
                 batchVars,
                 dsVars,
                 setVars>>

NextRetry ==
  \/ \E c \in Contexts : WithRetry(c)
  \/ \E i \in 1..MaxRetryCalls, o \in FnOutcomes : FnSettles(i, o)
  \/ \E i \in 1..MaxRetryCalls : RetryDelayEnds(i)

\* C32: withRetry calls fn at most maxRetries times; it returns after the
\* first success, rethrows a failure that is not retryable without waiting
\* or calling again, throws once maxRetries calls have failed with
\* retryable statuses, and every call of it ends.
C32_WithRetryBounded ==
  /\ [](\A i \in DOMAIN retryTasks :
          LET k == retryTasks[i]
          IN /\ k.calls <= MaxRetriesOf(k.context)
             /\ k.pc = "returned" =>
                  k.last = "ok" /\ k.attempt = k.calls - 1
             /\ k.pc = "rethrew" =>
                  /\ k.last \notin StatusesOf(k.context) \cup {"ok"}
                  /\ k.attempt = k.calls /\ k.waits = k.calls - 1
             /\ k.pc = "threw" =>
                  /\ k.last \in StatusesOf(k.context)
                  /\ k.calls = MaxRetriesOf(k.context)
                  /\ k.attempt = k.calls)
  /\ \A i \in 1..MaxRetryCalls :
       [](i \in DOMAIN retryTasks =>
            <>(/\ i \in DOMAIN retryTasks
               /\ retryTasks[i].pc \in {"returned", "rethrew", "threw"}))

C32_Witness ==
  /\ \E i \in DOMAIN retryTasks :
       /\ retryTasks[i].context = "LINE_API"
       /\ retryTasks[i].pc = "threw" /\ retryTasks[i].calls = 5
  /\ \E i \in DOMAIN retryTasks :
       /\ retryTasks[i].context = "DEEPSEEK_API"
       /\ retryTasks[i].pc = "rethrew" /\ retryTasks[i].last = "502"
       /\ retryTasks[i].calls = 2

\* ============================================================ SpecMenuCache
\* part_003 lines 300 and 329-404: sendLanguageMenu with messageCache.  Time
\* is counted in units of 30 s.

\* part_003 line 387, its comment: the entry is meant to be valid for 60 s.
CacheValid == 2
\* part_003 line 395: retryCount < 3.
MaxRetryCount3 == 3

\* part_003 lines 330-335: sendLanguageMenu up to its first await; a group
\* with an entry in messageCache gets no push.
EnterSendLanguageMenu(task) ==
  IF task.gid \in DOMAIN messageCache
    THEN [task EXCEPT !.pc = "done", !.cached = TRUE,
                      !.age = menu3Now - messageCache[task.gid]]
    ELSE [task EXCEPT !.pc = "pushing", !.pushes = @ + 1]

SendLanguageMenu3(gid) ==
  /\ Len(menu3Tasks) < MaxMenu3Calls
  /\ menu3Tasks' = Append(menu3Tasks,
       EnterSendLanguageMenu(
         [gid |-> gid, retryCount |-> 0, pc |-> "-", pushes |-> 0,
          cached |-> FALSE, age |-> 0]))
  /\ UNCHANGED <<messageCache, menu3Now>>
  /\ UNCHANGED <<dedupVars, langVars, menuVars, translateVars, msgVars,
                 startVars, p10Vars, mapVars, joinVars, retryVars,
                 selVars,
                 batchVars,
                 dsVars,
                 setVars>>

\* part_003 lines 386-403: pushMessage settles.
Push3Settles(i, outcome) ==
  /\ i \in DOMAIN menu3Tasks
  /\ menu3Tasks[i].pc = "pushing"
  /\ CASE outcome = "ok" ->
            /\ messageCache' = MapSet(messageCache, menu3Tasks[i].gid, menu3Now)
            /\ menu3Tasks' = [menu3Tasks EXCEPT ![i].pc = "done"]
       [] outcome = "429" /\ menu3Tasks[i].retryCount < MaxRetryCount3 ->
            /\ menu3Tasks' = [menu3Tasks EXCEPT ![i].pc = "backoff"]
            /\ UNCHANGED messageCache
       [] OTHER ->
            /\ messageCache' = MapDelete(messageCache, menu3Tasks[i].gid)
            /\ menu3Tasks' = [menu3Tasks EXCEPT ![i].pc = "done"]
  /\ UNCHANGED menu3Now
  /\ UNCHANGED <<dedupVars, langVars, menuVars, translateVars, msgVars,
                 startVars, p10Vars, mapVars, joinVars, retryVars,
                 selVars,
                 batchVars,
                 dsVars,
                 setVars>>

\* part_003 lines 397-398: the back-off ends and sendLanguageMenu runs again
\* with retryCount + 1.
Backoff3Ends(i) ==
  /\ i \in DOMAIN menu3Tasks
  /\ menu3Tasks[i].pc = "backoff"
  /\ menu3Tasks' = [menu3Tasks EXCEPT ![i] =
       EnterSendLanguageMenu([@ EXCEPT !.retryCount = @ + 1])]
  /\ UNCHANGED <<messageCache, menu3Now>>
  /\ UNCHANGED <<dedupVars, langVars, menuVars, translateVars, msgVars,
                 startVars, p10Vars, mapVars, joinVars, retryVars,
                 selVars,
                 batchVars,
                 dsVars,
                 setVars>>

\* 30 s pass.
Tick3 ==
  /\ menu3Now < MaxMenu3Time
  /\ menu3Now' = menu3Now + 1
  /\ UNCHANGED <<messageCache, menu3Tasks>>
  /\ UNCHANGED <<dedupVars, langVars, menuVars, translateVars, msgVars,
                 startVars, p10Vars, mapVars, joinVars, retryVars,
                 selVars,
                 batchVars,
                 dsVars,
                 setVars>>

NextMenuCache ==
  \/ \E g \in Groups : SendLanguageMenu3(g)
  \/ \E i \in 1..MaxMenu3Calls, o \in {"ok", "429", "error"} :
       Push3Settles(i, o)
  \/ \E i \in 1..MaxMenu3Calls : Backoff3Ends(i)
  \/ Tick3

\* C33 as claimed: a call that is answered from messageCache, without a
\* push, comes no more than 60 s after the push that made the entry.
C33_MenuRecordExpires ==
  \A i \in DOMAIN menu3Tasks :
    menu3Tasks[i].cached => menu3Tasks[i].age <= CacheValid

\* ================================================================ SpecBatch
\* part_007 lines 223-265 and 343-348: translateBatch, batchCache, and the
\* reply built from its result.

\* The arrays [...set] the handler passes, already sorted (line 228).
BatchCodes == {<<"en">>, <<"en", "th">>}
BatchTexts == {"zh-text"}

\* What the backend call can give: an answer whose text holds a JSON object
\* with some keys, an answer without any braces, an answer whose braces do
\* not parse, a 429, or another failure.
BatchAnswers ==
  {[kind |-> "json", keys |-> ks] : ks \in SUBSET LangCodes}
    \cup {[kind |-> k, keys |-> {}] :
            k \in {"no-json", "bad-json", "429", "error"}}

\* part_007 line 228: the cache key.
BatchKey(text, codes) == <<codes, text>>

\* part_007 lines 249-250: the object taken from the answer.
ParsedJson(answer) ==
  IF answer.kind = "json"
    THEN [c \in answer.keys |-> "translation"]
    ELSE [c \in {} |-> ""]

\* part_007 lines 259-263: one translateSingle per code; it always returns a
\* string.
Fallback(codes) == [c \in Range(codes) |-> "single"]

\* part_007 lines 227-229: translateBatch up to its first await.
EnterTranslateBatch(task) ==
  LET key == BatchKey(task.text, task.codes)
  IN IF key \in DOMAIN batchCache
       THEN [task EXCEPT !.pc = "done", !.json = batchCache[key]]
       ELSE [task EXCEPT !.pc = "calling", !.calls = @ + 1]

TranslateBatch(text, codes) ==
  /\ Len(batchTasks) < MaxBatchCalls
  /\ batchTasks' = Append(batchTasks,
       EnterTranslateBatch(
         [text |-> text, codes |-> codes, retry |-> 0, calls |-> 0,
          pc |-> "-", json |-> [c \in {} |-> ""]]))
  /\ UNCHANGED batchCache
  /\ UNCHANGED <<dedupVars, langVars, menuVars, translateVars, msgVars,
                 startVars, p10Vars, mapVars, joinVars, retryVars, menu3Vars,
                 selVars,
                 dsVars,
                 setVars>>

\* part_007 lines 236-264: axios.post settles.
BatchBackendSettles(i, answer) ==
  /\ i \in DOMAIN batchTasks
  /\ batchTasks[i].pc = "calling"
  /\ LET k == batchTasks[i]
     IN CASE answer.kind \in {"json", "no-json"} ->
               /\ batchCache' = MapSet(batchCache, BatchKey(k.text, k.codes),
                                       ParsedJson(answer))
               /\ batchTasks' = [batchTasks EXCEPT
                    ![i] = [k EXCEPT !.pc = "done", !.json = ParsedJson(answer)]]
          [] answer.kind = "429" /\ k.retry < MaxTranslateRetry ->
               /\ batchTasks' = [batchTasks EXCEPT ![i].pc = "backoff"]
               /\ UNCHANGED batchCache
          [] OTHER ->
               /\ batchTasks' = [batchTasks EXCEPT ![i].pc = "fallback"]
               /\ UNCHANGED batchCache
  /\ UNCHANGED <<dedupVars, langVars, menuVars, translateVars, msgVars,
                 startVars, p10Vars, mapVars, joinVars, retryVars, menu3Vars,
                 selVars,
                 dsVars,
                 setVars>>

\* part_007 lines 255-256: the back-off ends, translateBatch runs again.
BatchBackoffEnds(i) ==
  /\ i \in DOMAIN batchTasks
  /\ batchTasks[i].pc = "backoff"
  /\ batchTasks' = [batchTasks EXCEPT ![i] =
       EnterTranslateBatch([@ EXCEPT !.retry = @ + 1])]
  /\ UNCHANGED batchCache
  /\ UNCHANGED <<dedupVars, langVars, menuVars, translateVars, msgVars,
                 startVars, p10Vars, mapVars, joinVars, retryVars, menu3Vars,
                 selVars,
                 dsVars,
                 setVars>>

\* part_007 lines 260-264: the translateSingle calls of the fallback return.
FallbackSettles(i) ==
  /\ i \in DOMAIN batchTasks
  /\ batchTasks[i].pc = "fallback"
  /\ batchTasks' = [batchTasks EXCEPT ![i].pc = "done",
                                      ![i].json = Fallback(batchTasks[i].codes)]
  /\ UNCHANGED batchCache
  /\ UNCHANGED <<dedupVars, langVars, menuVars, translateVars, msgVars,
                 startVars, p10Vars, mapVars, joinVars, retryVars, menu3Vars,
                 selVars,
                 dsVars,
                 setVars>>

NextBatch ==
  \/ \E t \in BatchTexts, cs \in BatchCodes : TranslateBatch(t, cs)
  \/ \E i \in 1..MaxBatchCalls, a \in BatchAnswers : BatchBackendSettles(i, a)
  \/ \E i \in 1..MaxBatchCalls : BatchBackoffEnds(i)
  \/ \E i \in 1..MaxBatchCalls : FallbackSettles(i)

\* C37 as claimed: every object translateBatch returns, and every object in
\* batchCache, has an entry for each requested code.
C37_EveryCodeTranslated ==
  /\ \A i \in DOMAIN batchTasks :
       batchTasks[i].pc = "done" =>
         Range(batchTasks[i].codes) \subseteq DOMAIN batchTasks[i].json
  /\ \A key \in DOMAIN batchCache :
       Range(key[1]) \subseteq DOMAIN batchCache[key]

\* ============================================================= SpecDeepSeek
\* part_010 lines 149-198: batchTranslate, which wraps every
\* translateWithDeepSeek call in withRetry(..., 'DEEPSEEK_API').

\* The joined texts of the batches of three sentences (line 154) and the
\* target language lists a call can get.
DsBatches == {<<"s1">>, <<"s1", "s2">>}
DsLangs == {<<"en">>, <<"en", "th">>}
DsOutcomes == {"ok", "429", "500"}
Placeholder10 == "(unavailable)"

\* part_010 lines 169-197: how translateWithDeepSeek ends when its backend
\* call has settled: the catch turns every error into the placeholder.
TranslateEndRaises(outcome) ==
  [raised |-> outcome # "ok",
   value |-> IF outcome = "ok" THEN "translation" ELSE Placeholder10]
TranslateEnd(outcome) ==
  [raised |-> FALSE,
   value |-> IF outcome = "ok" THEN "translation" ELSE Placeholder10]

\* part_010 lines 156-158, 165-169: withRetry calls translateWithDeepSeek
\* for one language of one batch; a cached key is answered without a
\* backend call.
StartUnit(cache, text, lang) ==
  IF <<text, lang>> \in DOMAIN cache
    THEN [pc |-> "done", fnCalls |-> 1, backendCalls |-> 0,
          hit |-> TRUE, last |-> "-", result |-> cache[<<text, lang>>]]
    ELSE [pc |-> "calling", fnCalls |-> 1, backendCalls |-> 1,
          hit |-> FALSE, last |-> "-", result |-> "-"]

\* part_010 lines 153-159: the units of batch b of a call, started together.
StartBatch(cache, call, b) ==
  [u \in {<<b, call.langs[n]>> : n \in DOMAIN call.langs} |->
     StartUnit(cache, call.batches[b], u[2])]

\* part_010 lines 153-162: the loop goes on for as long as the batch it
\* awaits is complete: next batch, or return.
RECURSIVE Advance(_, _)
Advance(cache, call) ==
  IF call.pc # "running"
       \/ \E u \in DOMAIN call.units : call.units[u].pc # "done"
    THEN call
    ELSE IF call.cur = Len(call.batches)
           THEN [call EXCEPT !.pc = "done"]
           ELSE Advance(cache,
                  [call EXCEPT !.cur = @ + 1,
                               !.units = StartBatch(cache, call, call.cur + 1)
                                           @@ @])

\* part_010 lines 149-159: batchTranslate up to its first await.
BatchTranslate(batches, langs) ==
  /\ Len(dsCalls) < MaxDsCalls
  /\ LET call == [batches |-> batches, langs |-> langs, cur |-> 1,
                  pc |-> "running", units |-> << >>]
     IN dsCalls' = Append(dsCalls,
          Advance(translationCache10,
            [call EXCEPT !.units = StartBatch(translationCache10, call, 1)]))
  /\ UNCHANGED translationCache10
  /\ UNCHANGED <<dedupVars, langVars, menuVars, translateVars, msgVars,
                 startVars, p10Vars, mapVars, joinVars, retryVars, menu3Vars,
                 selVars, batchVars,
                 setVars>>

\* part_010 lines 171-197 and 94-103: the backend call of a unit settles;
\* translateWithDeepSeek ends, and withRetry returns its value, or calls it
\* again if it raised a retryable error, or rethrows.
DeepSeekSettles(i, u, outcome) ==
  /\ i \in DOMAIN dsCalls
  /\ dsCalls[i].pc = "running"
  /\ u \in DOMAIN dsCalls[i].units
  /\ dsCalls[i].units[u].pc = "calling"
  /\ LET call == dsCalls[i]
         unit == call.units[u]
         end == TranslateEnd(outcome)
         key == <<call.batches[u[1]], u[2]>>
         cache == IF outcome = "ok"
                    THEN MapSet(translationCache10, key, end.value)
                    ELSE translationCache10
         after ==
           CASE ~end.raised ->
                  [unit EXCEPT !.pc = "done", !.last = outcome,
                               !.result = end.value]
             [] /\ ShouldRetry("DEEPSEEK_API", outcome)
                /\ unit.fnCalls < MaxRetriesOf("DEEPSEEK_API") ->
                  [unit EXCEPT !.fnCalls = @ + 1, !.backendCalls = @ + 1,
                               !.last = outcome]
             [] OTHER -> [unit EXCEPT !.pc = "raised", !.last = outcome]
     IN /\ translationCache10' = cache
        /\ dsCalls' = [dsCalls EXCEPT ![i] =
             IF after.pc = "raised"
               THEN [call EXCEPT !.units[u] = after, !.pc = "raised"]
               ELSE Advance(cache, [call EXCEPT !.units[u] = after])]
  /\ UNCHANGED <<dedupVars, langVars, menuVars, translateVars, msgVars,
                 startVars, p10Vars, mapVars, joinVars, retryVars, menu3Vars,
                 selVars, batchVars,
                 setVars>>

\* part_010 lines 34-38: an entry outlives its ttl, or is evicted.
DsCacheExpires(key) ==
  /\ key \in DOMAIN translationCache10
  /\ translationCache10' = MapDelete(translationCache10, key)
  /\ UNCHANGED dsCalls
  /\ UNCHANGED <<dedupVars, langVars, menuVars, translateVars, msgVars,
                 startVars, p10Vars, mapVars, joinVars, retryVars, menu3Vars,
                 selVars, batchVars,
                 setVars>>

DsUnits == {<<b, l>> : b \in 1..2, l \in {"en", "th"}}

NextDeepSeek ==
  \/ \E bs \in DsBatches, ls \in DsLangs : BatchTranslate(bs, ls)
  \/ \E i \in 1..MaxDsCalls, u \in DsUnits, o \in DsOutcomes :
       DeepSeekSettles(i, u, o)
  \/ \E key \in {"s1", "s2"} \X {"en", "th"} : DsCacheExpires(key)

\* C36 as claimed: every unit that has ended made exactly one backend call.
C36_ExactlyOneBackendCall ==
  \A i \in DOMAIN dsCalls : \A u \in DOMAIN dsCalls[i].units :
    dsCalls[i].units[u].pc = "done" => dsCalls[i].units[u].backendCalls = 1

\* C36, amended: withRetry calls translateWithDeepSeek once per batch and
\* language; the unit makes one backend call, or none when the key is in
\* the cache; a failed backend call (429 included) is not repeated and its
\* placeholder is returned as the translation.
C36_NeverRetried ==
  \A i \in DOMAIN dsCalls :
    /\ dsCalls[i].pc # "raised"
    /\ \A u \in DOMAIN dsCalls[i].units :
         LET unit == dsCalls[i].units[u]
         IN /\ unit.fnCalls = 1
            /\ unit.backendCalls = IF unit.hit THEN 0 ELSE 1
            /\ unit.pc = "done" /\ unit.last \in {"429", "500"} =>
                 unit.result = Placeholder10

C36_Witness ==
  \E i \in DOMAIN dsCalls :
    /\ dsCalls[i].pc = "done"
    /\ \E u, v \in DOMAIN dsCalls[i].units :
         /\ dsCalls[i].units[u].last = "429"
         /\ dsCalls[i].units[u].result = Placeholder10
         /\ dsCalls[i].units[v].hit

\* ============================================================= SpecSettings
\* part_000 lines 94-135: the postback branch with tempSettings and
\* groupSettings.  Every postback carries a reply token of its own.  A
\* field that is not set, and a parameter missing from the postback data
\* (params.get gives null), are written "": both are falsy.

\* "off-lang" stands for the literal of line 126 that switches translation
\* off.
OffLang == "off-lang"
Industries == {"CNC", ""}
SettingLangs == {"en-lang", OffLang, ""}
NoPending == [industry |-> "", targetLang |-> ""]

\* part_000 lines 105, 111: tempSettings[groupId] || {}
PendingOf(g) == IF g \in DOMAIN tempSettings THEN tempSettings[g] ELSE NoPending

\* part_000 line 116: the test of confirmSetting.
Incomplete(g) ==
  \/ g \notin DOMAIN tempSettings
  \/ tempSettings[g].industry = ""
  \/ tempSettings[g].targetLang = ""

\* part_000 lines 123-127: the committed object.
CommittedAlwaysOn(pending) ==
  [industry |-> pending.industry, targetLang |-> pending.targetLang,
   translate |-> "on"]
Committed(pending) ==
  [industry |-> pending.industry, targetLang |-> pending.targetLang,
   translate |-> IF pending.targetLang = OffLang THEN "off" ELSE "on"]

\* part_000 lines 100-102.
StartSetting(g) ==
  /\ tempSettings' = MapSet(tempSettings, g, NoPending)
  /\ UNCHANGED groupSettings
  /\ UNCHANGED <<dedupVars, langVars, menuVars, translateVars, msgVars,
                 startVars, p10Vars, mapVars, joinVars, retryVars, menu3Vars,
                 selVars, batchVars, dsVars>>

\* part_000 lines 103-108.
SelectIndustry(g, industry) ==
  /\ tempSettings' =
       MapSet(tempSettings, g, [PendingOf(g) EXCEPT !.industry = industry])
  /\ UNCHANGED groupSettings
  /\ UNCHANGED <<dedupVars, langVars, menuVars, translateVars, msgVars,
                 startVars, p10Vars, mapVars, joinVars, retryVars, menu3Vars,
                 selVars, batchVars, dsVars>>

\* part_000 lines 109-114.
SelectSettingLanguage(g, language) ==
  /\ tempSettings' =
       MapSet(tempSettings, g, [PendingOf(g) EXCEPT !.targetLang = language])
  /\ UNCHANGED groupSettings
  /\ UNCHANGED <<dedupVars, langVars, menuVars, translateVars, msgVars,
                 startVars, p10Vars, mapVars, joinVars, retryVars, menu3Vars,
                 selVars, batchVars, dsVars>>

\* part_000 lines 115-133.
ConfirmSetting(g) ==
  /\ IF Incomplete(g)
       THEN UNCHANGED <<groupSettings, tempSettings>>
       ELSE /\ groupSettings' =
                 MapSet(groupSettings, g, Committed(tempSettings[g]))
            /\ tempSettings' = MapDelete(tempSettings, g)
  /\ UNCHANGED <<dedupVars, langVars, menuVars, translateVars, msgVars,
                 startVars, p10Vars, mapVars, joinVars, retryVars, menu3Vars,
                 selVars, batchVars, dsVars>>

NextSettings ==
  \/ \E g \in Groups : StartSetting(g)
  \/ \E g \in Groups, v \in Industries : SelectIndustry(g, v)
  \/ \E g \in Groups, v \in SettingLangs : SelectSettingLanguage(g, v)
  \/ \E g \in Groups : ConfirmSetting(g)

\* C40: committed settings have an industry and a target language, and
\* translate is "off" exactly for the off language; the committed settings
\* of a group change only in a step that starts with a complete pending
\* selection for the group, take their values from it, and clear it.
C40_TwoPhaseSettings ==
  /\ [](\A g \in DOMAIN groupSettings :
          /\ groupSettings[g].industry # ""
          /\ groupSettings[g].targetLang # ""
          /\ groupSettings[g].translate = "off"
               <=> groupSettings[g].targetLang = OffLang)
  /\ [][\A g \in Groups :
          (g \in DOMAIN groupSettings) # (g \in DOMAIN groupSettings')
            \/ (g \in DOMAIN groupSettings
                  /\ groupSettings'[g] # groupSettings[g])
          => /\ ~Incomplete(g)
             /\ groupSettings'[g].industry = tempSettings[g].industry
             /\ groupSettings'[g].targetLang = tempSettings[g].targetLang
             /\ g \notin DOMAIN tempSettings']_vars

C40_Witness ==
  /\ "G1" \in DOMAIN groupSettings
  /\ groupSettings["G1"].translate = "off"
  /\ "G1" \notin DOMAIN tempSettings
  /\ "G2" \in DOMAIN groupSettings
  /\ groupSettings["G2"].translate = "on"
  /\ "G2" \in DOMAIN tempSettings
  /\ tempSettings["G2"].industry = "" /\ tempSettings["G2"].targetLang = OffLang

\* ================================================================ Init
InitDedup ==
  /\ processedReplyTokens = {}
  /\ groupLanguages = [g \in Groups |-> <<>>]
  /\ deliveries = <<>>
  /\ effects = <<>>

Init ==
  /\ InitDedup
  /\ groupLang = EmptyMap
  /\ langFile = EmptyMap
  /\ postbacks = <<>>
  /\ toggleLog = [g \in Groups |-> <<>>]
  /\ arrivals = [g \in Groups |-> <<>>]
  /\ now = 1
  /\ rateLimit = [g \in Groups |-> 0]
  /\ menuTasks = <<>>
  /\ menuCalls = <<>>
  /\ lastAllowed = [g \in Groups |-> 0]
  /\ cacheNow = 0
  /\ singleCache = <<>>
  /\ translateTasks = <<>>
  /\ msgHandler = "-"
  /\ msgTasks = <<>>
  /\ response = "-"
  /\ loader = [pc |-> "done", runs |-> 1, read |-> "missing",
               clobbered |-> FALSE]
  /\ fileKind = "missing"
  /\ onDisk = 0
  /\ groupLanguages10 = EmptyMap
  /\ storageFile = EmptyMap
  /\ lineApiStatus = [errorCount |-> 0, blocked |-> FALSE]
  /\ languageDetectionCache = [x \in {} |-> ""]
  /\ p10Tasks = <<>>
  /\ translationCache = [x \in {} |-> [value |-> "", at |-> 0]]
  /\ mapTasks = <<>>
  /\ mapNow = 0
  /\ groupLastSent = [x \in {} |-> 0]
  /\ joinTasks = <<>>
  /\ joinNow = JoinEpoch
  /\ retryTasks = <<>>
  /\ messageCache = [x \in {} |-> 0]
  /\ menu3Tasks = <<>>
  /\ menu3Now = 0
  /\ selectLog = <<>>
  /\ batchCache = [x \in {} |-> EmptyMap]
  /\ batchTasks = <<>>
  /\ translationCache10 = [x \in {} |-> ""]
  /\ dsCalls = <<>>
  /\ groupSettings = [x \in {} |-> <<>>]
  /\ tempSettings = [x \in {} |-> <<>>]

SpecDedup == Init /\ [][NextDedup]_vars

SpecLang == Init /\ [][NextLang]_vars

SpecStartup == Init /\ [][NextStartup]_vars
SpecPart010 == Init /\ [][NextPart010]_vars
SpecMapCache == Init /\ [][NextMapCache]_vars
SpecOwner == Init /\ [][NextOwner]_vars
SpecJoin == Init /\ [][NextJoin]_vars
SpecMenu == Init /\ [][NextMenu]_vars

SpecTranslate == Init /\ [][NextTranslate]_vars

SpecMessage == Init /\ [][NextMessage]_vars

SpecMenuCache == Init /\ [][NextMenuCache]_vars
SpecForeign == Init /\ [][NextForeign]_vars
SpecSelect == Init /\ [][NextSelect]_vars
SpecBatch == Init /\ [][NextBatch]_vars
SpecDeepSeek == Init /\ [][NextDeepSeek]_vars
SpecSettings == Init /\ [][NextSettings]_vars
SpecRetry == Init /\ [][NextRetry]_vars

\* Every invocation of fn settles and every delay ends.
FairSpecRetry ==
  /\ SpecRetry
  /\ \A i \in 1..MaxRetryCalls :
       /\ WF_vars(\E o \in FnOutcomes : FnSettles(i, o))
       /\ WF_vars(RetryDelayEnds(i))

\* Every awaited pushMessage settles, every timer fires, and time passes.
FairSpecMenu ==
  /\ SpecMenu
  /\ WF_vars(Tick)
  /\ \A i \in 1..MaxMenuCalls :
       /\ WF_vars(\E outcome \in {"ok", "429", "error"} : PushSettles(i, outcome))
       /\ WF_vars(BackoffFires(i))

====
